---- MODULE Spec2Model ----
(***************************************************************************)
(* Verification model of the resume version stores, the resume parser and  *)
(* the resume analyzer of interview_assistant.                              *)
(*                                                                          *)
(*   resume_optimizer.py         ResumeVersionManager  (tables              *)
(*                               resume_versions, version_comparisons of    *)
(*                               data/templates.db)                         *)
(*   resume_version_manager.py   ResumeVersionManager  (tables of           *)
(*                               data/resume_versions.db), names rvm_...    *)
(*   enhanced_resume_parser.py   EnhancedResumeParser.parse_resume          *)
(*   advanced_resume_analyzer.py AdvancedResumeAnalyzer                     *)
(*   resume_optimizer.py         ResumeOptimizer.calculate_ats_score        *)
(***************************************************************************)
EXTENDS Integers, Sequences, FiniteSets, TLC

VARIABLES
    now,                  \* the wall clock, datetime.now(), in ticks of TickHours hours
    resume_versions,      \* resume_optimizer: committed rows of resume_versions, by version_id
    version_comparisons,  \* resume_optimizer: committed rows of version_comparisons
    ret,                  \* the last call of the resume_optimizer store and what it returned
    prev,                 \* the version the call before the last one made active, or NoId
    conns,                \* one open sqlite connection per concurrent set_active_version call
    db_lock,              \* the connection holding sqlite's write (RESERVED) lock, or NoConn
    seen,                 \* what the last concurrent reader (get_active_version) saw
    rvm_versions,         \* resume_version_manager: rows of resume_versions, by id
    rvm_comparisons,      \* resume_version_manager: rows of version_comparisons, in id order
    rvm_ret,              \* the last call of the resume_version_manager store and its result
    parsed,               \* the last parse_resume call: its inputs and what it returned
    analysis,             \* the last analyze_resume_comprehensive call and its outcome
    scored,               \* the last calculate_ats_score call: its inputs and its ATSScore
    users,                \* user_auth: rows of users, by login id
    user_sessions,        \* user_auth: rows of user_sessions, by session_id
    auth_ret,             \* the last call of the user manager and what it returned
    auth_seen,            \* history: failed logins counted, sessions issued and ended
    email_verifications,  \* email_verification: rows of email_verifications, by user_id
    email_verified,       \* the users whose email_verified column is TRUE
    verify_ret,           \* the last call of the email verification and its result
    verify_seen,          \* history: the codes issued and redeemed
    backup_file,          \* email_service: the contents of data/feedback_backup.json
    feedback_ret          \* the last send_feedback_email call and what it did

auth_vars == <<users, user_sessions, auth_ret, auth_seen>>
mail_vars == <<email_verifications, email_verified, verify_ret, verify_seen,
               backup_file, feedback_ret>>
aux_vars == <<parsed, analysis, scored, auth_vars, mail_vars>>
ro_vars == <<now, resume_versions, version_comparisons, ret, prev, conns, db_lock, seen>>
rvm_vars == <<rvm_versions, rvm_comparisons, rvm_ret>>
vars == <<ro_vars, rvm_vars, aux_vars>>

----------------------------------------------------------------------------
(* Bounds of the model *)

MaxTicks == 1
MaxSuffix == 2
MaxVersions == 2
MaxCacheRows == 2
TickHours == 12
ManySkills == 15
MaxElapses == 2
ElapseHours == 13
MaxBackup == 4

(* Program constants *)
CacheWindowHours == 24
MaxLoginAttempts == 5
LockoutHours == 1
SessionTimeoutHours == 12
RememberMeHours == 720
VerificationHours == 24

Users == {"u1", "u2"}
NULL == "NULL"
Owners == Users \cup {NULL}
Names == {"n1", "n2"}
Datas == {"d1", "d2"}
Results == {"r1", "r2"}
Absent == "absent"

NoId == <<>>
NoConn == "none"

\* version_id = f"v_{now:%Y%m%d_%H%M%S}_{uuid4().hex[:8]}": a clock reading and a random suffix
Suffixes == 1..MaxSuffix
IdSpace == (0..MaxTicks) \X Suffixes
CmpIds == 1..MaxCacheRows

\* the identifiers a call may name at a given time: those issued up to now,
\* stored or not
IssuedIds == {i \in IdSpace : i[1] <= now}

Hours(t) == t * TickHours

Range(s) == {s[i] : i \in DOMAIN s}

----------------------------------------------------------------------------
(* resume_optimizer.ResumeVersionManager, one call at a time *)

Stored == DOMAIN resume_versions

ActiveIn(tbl) == {v \in DOMAIN tbl : tbl[v].is_active}

Call(op, vid, uid, res) ==
    [op |-> op, vid |-> vid, uid |-> uid, res |-> res, val |-> "none", list |-> <<>>, n |-> 0]

RememberSet == IF ret.op = "set_active_version" /\ ret.vid \in Stored THEN ret.vid ELSE NoId

\* INSERT INTO resume_versions ...: a PRIMARY KEY clash is an IntegrityError,
\* rolled back and re-raised
create_version(uid, name, data, suffix) ==
    LET vid == <<now, suffix>> IN
    /\ Cardinality(Stored) < MaxVersions \/ vid \in Stored
    /\ IF vid \in Stored
       THEN /\ UNCHANGED resume_versions
            /\ ret' = Call("create_version", vid, uid, "raise")
       ELSE /\ resume_versions' =
                  [v \in Stored \cup {vid} |->
                      IF v = vid
                      THEN [name |-> name, resume_data |-> data, created_time |-> now,
                            is_active |-> FALSE, user_id |-> uid]
                      ELSE resume_versions[v]]
            /\ ret' = Call("create_version", vid, uid, "ok")
    /\ prev' = RememberSet
    /\ UNCHANGED <<now, version_comparisons, conns, db_lock, seen, rvm_vars, aux_vars>>

get_version(vid) ==
    /\ ret' = IF vid \in Stored
              THEN [Call("get_version", vid, NULL, "found") EXCEPT
                        !.val = resume_versions[vid].resume_data]
              ELSE Call("get_version", vid, NULL, "none")
    /\ prev' = RememberSet
    /\ UNCHANGED <<now, resume_versions, version_comparisons, conns, db_lock, seen, rvm_vars, aux_vars>>

\* SELECT ... ORDER BY created_time DESC: every order of S that is newest first
\* (rows with equal created_time come in any order)
NewestFirst(tbl, S) ==
    {s \in [1..Cardinality(S) -> S] :
        /\ \A i, j \in DOMAIN s : i # j => s[i] # s[j]
        /\ \A i, j \in DOMAIN s : i < j => tbl[s[i]].created_time >= tbl[s[j]].created_time}

\* a listing with no WHERE clause
ListRows_all(tbl, uid) == DOMAIN tbl

\* WHERE user_id = ? OR user_id IS NULL, or WHERE user_id IS NULL for a guest
\* ("if user_id:" is false for None)
ListRows(tbl, uid) ==
    IF uid # NULL
    THEN {v \in DOMAIN tbl : tbl[v].user_id = uid \/ tbl[v].user_id = NULL}
    ELSE {v \in DOMAIN tbl : tbl[v].user_id = NULL}

list_versions(uid) ==
    /\ \E s \in NewestFirst(resume_versions, ListRows(resume_versions, uid)) :
          ret' = [Call("list_versions", NoId, uid, "ok") EXCEPT !.list = s]
    /\ prev' = RememberSet
    /\ UNCHANGED <<now, resume_versions, version_comparisons, conns, db_lock, seen, rvm_vars, aux_vars>>

\* a clear step that clears nothing
ClearAll_skipped(tbl) == tbl

\* a set step whose WHERE clause matches no row
SetOne_skipped(tbl, vid) == tbl

\* UPDATE resume_versions SET is_active = FALSE; then SET is_active = TRUE WHERE version_id = ?
ClearAll(tbl) == [v \in DOMAIN tbl |-> [tbl[v] EXCEPT !.is_active = FALSE]]

SetOne(tbl, vid) ==
    [v \in DOMAIN tbl |-> IF v = vid THEN [tbl[v] EXCEPT !.is_active = TRUE] ELSE tbl[v]]

\* a call that rolls back when its second UPDATE matched no row
set_active_version_checked(vid) ==
    /\ resume_versions' = IF vid \in Stored THEN SetOne(ClearAll(resume_versions), vid)
                          ELSE resume_versions
    /\ ret' = Call("set_active_version", vid, NULL, "ok")
    /\ prev' = RememberSet
    /\ UNCHANGED <<now, version_comparisons, conns, db_lock, seen, rvm_vars, aux_vars>>

set_active_version(vid) ==
    /\ resume_versions' = SetOne(ClearAll(resume_versions), vid)
    /\ ret' = Call("set_active_version", vid, NULL, "ok")
    /\ prev' = RememberSet
    /\ UNCHANGED <<now, version_comparisons, conns, db_lock, seen, rvm_vars, aux_vars>>

\* a cache deletion that looks at the first endpoint only
PurgeComparisons_first(rows, vid) == {r \in rows : r.version1_id # vid}

\* DELETE FROM version_comparisons WHERE version1_id = ? OR version2_id = ?
PurgeComparisons(rows, vid) ==
    {r \in rows : r.version1_id # vid /\ r.version2_id # vid}

\* a call that commits its cache deletion whether a version row was deleted
\* or not
delete_version_committed(vid) ==
    /\ version_comparisons' = PurgeComparisons(version_comparisons, vid)
    /\ IF vid \in Stored
       THEN /\ resume_versions' = [v \in Stored \ {vid} |-> resume_versions[v]]
            /\ ret' = [Call("delete_version", vid, NULL, "true") EXCEPT
                          !.n = Cardinality(version_comparisons
                                            \ PurgeComparisons(version_comparisons, vid))]
       ELSE /\ UNCHANGED resume_versions
            /\ ret' = Call("delete_version", vid, NULL, "false")
    /\ prev' = RememberSet
    /\ UNCHANGED <<now, conns, db_lock, seen, rvm_vars, aux_vars>>

\* the commit happens only when the version row was deleted; otherwise the
\* connection is closed with the cache deletion uncommitted, which rolls it back
delete_version(vid) ==
    /\ IF vid \in Stored
       THEN /\ version_comparisons' = PurgeComparisons(version_comparisons, vid)
            /\ resume_versions' = [v \in Stored \ {vid} |-> resume_versions[v]]
            /\ ret' = [Call("delete_version", vid, NULL, "true") EXCEPT
                          !.n = Cardinality(version_comparisons
                                            \ PurgeComparisons(version_comparisons, vid))]
       ELSE /\ UNCHANGED <<resume_versions, version_comparisons>>
            /\ ret' = Call("delete_version", vid, NULL, "false")
    /\ prev' = RememberSet
    /\ UNCHANGED <<now, conns, db_lock, seen, rvm_vars, aux_vars>>

\* the updates dictionary: name stands for the four text columns (name,
\* target_company, target_position, description); any other key is ignored
Updates == [name : Names \cup {Absent}, resume_data : Datas \cup {Absent},
            is_active : {Absent, "true"}]

ApplyUpdates(row, u) ==
    [row EXCEPT !.name = IF u.name = Absent THEN @ ELSE u.name,
                !.resume_data = IF u.resume_data = Absent THEN @ ELSE u.resume_data]

\* a call that also deletes the cache rows of the version it has updated
update_version_purging(vid, u) ==
    /\ IF u.name = Absent /\ u.resume_data = Absent
       THEN /\ UNCHANGED <<resume_versions, version_comparisons>>
            /\ ret' = Call("update_version", vid, NULL, "false")
       ELSE IF vid \in Stored
       THEN /\ resume_versions' =
                  [resume_versions EXCEPT ![vid] = ApplyUpdates(@, u)]
            /\ version_comparisons' = PurgeComparisons(version_comparisons, vid)
            /\ ret' = Call("update_version", vid, NULL, "true")
       ELSE /\ UNCHANGED <<resume_versions, version_comparisons>>
            /\ ret' = Call("update_version", vid, NULL, "false")
    /\ prev' = RememberSet
    /\ UNCHANGED <<now, conns, db_lock, seen, rvm_vars, aux_vars>>

update_version(vid, u) ==
    /\ IF u.name = Absent /\ u.resume_data = Absent
       THEN /\ UNCHANGED resume_versions                     \* if not set_clause: return False
            /\ ret' = Call("update_version", vid, NULL, "false")
       ELSE IF vid \in Stored
       THEN /\ resume_versions' =
                  [resume_versions EXCEPT ![vid] = ApplyUpdates(@, u)]
            /\ ret' = Call("update_version", vid, NULL, "true")
       ELSE /\ UNCHANGED resume_versions                     \* rowcount = 0
            /\ ret' = Call("update_version", vid, NULL, "false")
    /\ prev' = RememberSet
    /\ UNCHANGED <<now, version_comparisons, conns, db_lock, seen, rvm_vars, aux_vars>>

\* SELECT ... WHERE is_active = TRUE LIMIT 1: any one of the active rows
ActiveVersionResults(tbl) == IF ActiveIn(tbl) = {} THEN {NoId} ELSE ActiveIn(tbl)

get_active_version ==
    /\ \E v \in ActiveVersionResults(resume_versions) :
          ret' = Call("get_active_version", v, NULL, IF v = NoId THEN "none" ELSE "found")
    /\ prev' = RememberSet
    /\ UNCHANGED <<now, resume_versions, version_comparisons, conns, db_lock, seen, rvm_vars, aux_vars>>

\* comparison_id = f"cmp_{uuid4().hex[:16]}" is the PRIMARY KEY; the version ids
\* are not checked (sqlite does not enforce FOREIGN KEY unless asked to)
cache_comparison(v1, v2, result, cid) ==
    /\ Cardinality(version_comparisons) < MaxCacheRows
         \/ \E r \in version_comparisons : r.id = cid
    /\ IF \E r \in version_comparisons : r.id = cid
       THEN /\ UNCHANGED version_comparisons
            /\ ret' = Call("cache_comparison", v1, NULL, "empty")
       ELSE /\ version_comparisons' = version_comparisons \cup
                  {[id |-> cid, version1_id |-> v1, version2_id |-> v2,
                    comparison_result |-> result, created_time |-> now]}
            /\ ret' = Call("cache_comparison", v1, NULL, "ok")
    /\ prev' = RememberSet
    /\ UNCHANGED <<now, resume_versions, conns, db_lock, seen, rvm_vars, aux_vars>>

\* WHERE (version1_id = ? AND version2_id = ?) OR (version1_id = ? AND version2_id = ?)
PairRows(rows, v1, v2) ==
    {r \in rows : \/ r.version1_id = v1 /\ r.version2_id = v2
                  \/ r.version1_id = v2 /\ r.version2_id = v1}

\* ORDER BY created_time DESC LIMIT 1
LatestRows(rows) == {r \in rows : \A q \in rows : q.created_time <= r.created_time}

\* datetime.now() - cached_time < timedelta(hours=24)
CacheValid(r, t) == Hours(t) - Hours(r.created_time) < CacheWindowHours

CachedResults(rows, v1, v2, t) ==
    IF PairRows(rows, v1, v2) = {}
    THEN {"none"}
    ELSE {IF CacheValid(r, t) THEN r.comparison_result ELSE "none" :
             r \in LatestRows(PairRows(rows, v1, v2))}

get_cached_comparison(v1, v2) ==
    /\ \E x \in CachedResults(version_comparisons, v1, v2, now) :
          ret' = [Call("get_cached_comparison", v1, NULL,
                       IF x = "none" THEN "none" ELSE "found") EXCEPT !.val = x]
    /\ prev' = RememberSet
    /\ UNCHANGED <<now, resume_versions, version_comparisons, conns, db_lock, seen, rvm_vars, aux_vars>>

Tick ==
    /\ now < MaxTicks
    /\ now' = now + 1
    /\ UNCHANGED <<resume_versions, version_comparisons, ret, prev, conns, db_lock, seen, rvm_vars, aux_vars>>

----------------------------------------------------------------------------
(* user_auth.UserManager: the users and user_sessions tables of              *)
(* data/users.db. The clock of these operations moves in steps of           *)
(* ElapseHours hours.                                                        *)

NoTime == -1
NoUser == "none"
NoSession == "none"

WebHours(t) == t * ElapseHours

Elapse ==
    /\ now < MaxElapses
    /\ now' = now + 1
    /\ UNCHANGED <<resume_versions, version_comparisons, ret, prev, conns, db_lock, seen,
                   rvm_vars, aux_vars>>

\* the accounts of the users table: ann is active, bob has been disabled and
\* holds a remember-me session from before
Accounts == {"ann", "bob"}
LoginIds == Accounts \cup {"nobody"}
Passwords == {"right", "wrong"}
SessionIds == {"s0", "s1", "s2", "s3"}

AuthCall(op, res, user, sid, at) == [op |-> op, res |-> res, user |-> user, sid |-> sid, at |-> at]

AuthInit ==
    /\ users = [u \in Accounts |->
                  [is_active |-> u = "ann", login_attempts |-> 0, locked_until |-> NoTime]]
    /\ user_sessions = ("s0" :> [user_id |-> "bob", expires_time |-> RememberMeHours])
    /\ auth_ret = [op |-> "init"]
    /\ auth_seen = [failures |-> <<>>, issued |-> <<>>, ended |-> {}]

\* secrets.token_hex(32): a token no session has had before ("s0" is the
\* session the table starts with)
FreshSessionIds == SessionIds \ (DOMAIN auth_seen.issued \cup {"s0"})

\* the wrong-password logins counted for an account
Failures(login_id) ==
    IF login_id \in DOMAIN auth_seen.failures THEN auth_seen.failures[login_id] ELSE 0

\* the token the next login draws
Tokens == IF FreshSessionIds = {} THEN {NoSession} ELSE {CHOOSE s \in FreshSessionIds : TRUE}

\* UPDATE users SET locked_until = NULL, login_attempts = 0
Unlocked(row) == [row EXCEPT !.locked_until = NoTime, !.login_attempts = 0]

\* login_attempts + 1, with login_attempts the value of the row as fetched at
\* the start of the call (the unlock UPDATE does not change the local variable)
NewAttempts(row) == row.login_attempts + 1

\* timedelta(days=30) if remember_me else timedelta(hours=12)
ExpiresTime(t, remember_me) ==
    WebHours(t) + (IF remember_me THEN RememberMeHours ELSE SessionTimeoutHours)

\* auth_seen.failures counts the wrong-password logins of an account since
\* its last successful login or, if later, since its last lock expired;
\* auth_seen.issued holds the sessions the logins have issued, auth_seen.ended
\* the sessions deleted
login_user(login_id, password, remember_me, session_id) ==
    /\ IF login_id \notin DOMAIN users
       THEN /\ auth_ret' = AuthCall("login_user", "no user", NoUser, NoSession, now)
            /\ UNCHANGED <<users, user_sessions, auth_seen>>
       ELSE LET row == users[login_id]
                was_locked == row.locked_until # NoTime
                unlocked == IF was_locked THEN Unlocked(row) ELSE row
            IN  IF ~row.is_active
                THEN /\ auth_ret' = AuthCall("login_user", "disabled", login_id, NoSession, now)
                     /\ UNCHANGED <<users, user_sessions, auth_seen>>
                ELSE IF was_locked /\ WebHours(now) < row.locked_until
                THEN /\ auth_ret' = AuthCall("login_user", "locked", login_id, NoSession, now)
                     /\ UNCHANGED <<users, user_sessions, auth_seen>>
                ELSE IF password # "right"
                THEN /\ users' =
                          [users EXCEPT ![login_id] =
                              IF NewAttempts(row) >= MaxLoginAttempts
                              THEN [unlocked EXCEPT !.login_attempts = NewAttempts(row),
                                                    !.locked_until = WebHours(now) + LockoutHours]
                              ELSE [unlocked EXCEPT !.login_attempts = NewAttempts(row)]]
                     /\ auth_ret' =
                          AuthCall("login_user",
                                   IF NewAttempts(row) >= MaxLoginAttempts
                                   THEN "now locked" ELSE "wrong password",
                                   login_id, NoSession, now)
                     /\ auth_seen' =
                          [auth_seen EXCEPT !.failures =
                              login_id :> ((IF was_locked THEN 0 ELSE Failures(login_id)) + 1)
                              @@ @]
                     /\ UNCHANGED user_sessions
                ELSE /\ session_id \in FreshSessionIds
                     /\ users' = [users EXCEPT ![login_id] = Unlocked(row)]
                     /\ user_sessions' =
                          session_id :> [user_id |-> login_id,
                                         expires_time |-> ExpiresTime(now, remember_me)]
                          @@ user_sessions
                     /\ auth_ret' = AuthCall("login_user", "ok", login_id, session_id, now)
                     /\ auth_seen' =
                          [auth_seen EXCEPT
                              !.failures = login_id :> 0 @@ @,
                              !.issued = session_id :> [user_id |-> login_id,
                                                        expires_time |-> ExpiresTime(now, remember_me)]
                                         @@ @]
    /\ UNCHANGED <<ro_vars, rvm_vars, parsed, analysis, scored, mail_vars>>

Without(tbl, S) == [k \in DOMAIN tbl \ S |-> tbl[k]]

\* a session check that never looks at the expiry time
SessionLive_always(row, t) == TRUE

\* datetime.now() < expires_time
SessionLive(row, t) == WebHours(t) < row.expires_time

\* users JOIN user_sessions WHERE s.session_id = ? AND u.is_active = TRUE
get_user_by_session(session_id) ==
    /\ IF session_id \in DOMAIN user_sessions
          /\ users[user_sessions[session_id].user_id].is_active
       THEN IF SessionLive(user_sessions[session_id], now)
            THEN /\ auth_ret' = AuthCall("get_user_by_session", "user",
                                         user_sessions[session_id].user_id, session_id, now)
                 /\ UNCHANGED <<user_sessions, auth_seen>>
            ELSE /\ user_sessions' = Without(user_sessions, {session_id})
                 /\ auth_ret' = AuthCall("get_user_by_session", "none", NoUser, session_id, now)
                 /\ auth_seen' = [auth_seen EXCEPT !.ended = @ \cup {session_id}]
       ELSE /\ auth_ret' = AuthCall("get_user_by_session", "none", NoUser, session_id, now)
            /\ UNCHANGED <<user_sessions, auth_seen>>
    /\ UNCHANGED <<ro_vars, rvm_vars, parsed, analysis, scored, users, mail_vars>>

\* DELETE FROM user_sessions WHERE session_id = ?
logout_user(session_id) ==
    /\ user_sessions' = Without(user_sessions, {session_id})
    /\ auth_ret' = AuthCall("logout_user", "ok", NoUser, session_id, now)
    /\ auth_seen' = [auth_seen EXCEPT
                        !.ended = @ \cup ({session_id} \cap DOMAIN user_sessions)]
    /\ UNCHANGED <<ro_vars, rvm_vars, parsed, analysis, scored, users, mail_vars>>

\* DELETE FROM user_sessions WHERE expires_time < now
ExpiredSessions(tbl, t) == {s \in DOMAIN tbl : tbl[s].expires_time < WebHours(t)}

cleanup_expired_sessions ==
    /\ user_sessions' = Without(user_sessions, ExpiredSessions(user_sessions, now))
    /\ auth_ret' = AuthCall("cleanup_expired_sessions", "ok", NoUser, NoSession, now)
    /\ auth_seen' = [auth_seen EXCEPT !.ended = @ \cup ExpiredSessions(user_sessions, now)]
    /\ UNCHANGED <<ro_vars, rvm_vars, parsed, analysis, scored, users, mail_vars>>

NextAuth ==
    \/ \E login_id \in LoginIds, password \in Passwords, remember_me \in BOOLEAN,
          session_id \in Tokens : login_user(login_id, password, remember_me, session_id)
    \/ \E session_id \in SessionIds : get_user_by_session(session_id)
    \/ \E session_id \in SessionIds : logout_user(session_id)
    \/ cleanup_expired_sessions
    \/ Elapse

----------------------------------------------------------------------------
(* email_verification.EmailVerification: the email_verifications table of    *)
(* data/users.db and the email_verified column of users                      *)

Codes == {"c1", "c2", "c3"}

VerifyCall(op, ok, res, code, at) == [op |-> op, ok |-> ok, res |-> res, code |-> code, at |-> at]

VerifyInit ==
    /\ email_verifications = <<>>
    /\ email_verified = {}
    /\ verify_ret = [op |-> "init"]
    /\ verify_seen = [issued |-> <<>>, latest |-> <<>>, redeemed |-> {}]

\* secrets.token_hex(16): a code no call has issued before
FreshCodes == Codes \ DOMAIN verify_seen.issued

\* INSERT OR REPLACE INTO email_verifications (user_id, verification_code,
\* created_time): the row of the user is replaced, is_verified takes its
\* default FALSE. verify_seen records the codes issued and redeemed.
send_verification_email(user_id, verification_code) ==
    /\ verification_code \in FreshCodes
    /\ email_verifications' =
          user_id :> [verification_code |-> verification_code,
                      created_time |-> WebHours(now), is_verified |-> FALSE]
          @@ email_verifications
    /\ verify_ret' = VerifyCall("send_verification_email", TRUE, "sent", verification_code, now)
    /\ verify_seen' = [verify_seen EXCEPT
                          !.issued = verification_code :>
                                        [user_id |-> user_id, created_time |-> WebHours(now)] @@ @,
                          !.latest = user_id :> verification_code @@ @]
    /\ UNCHANGED <<ro_vars, rvm_vars, parsed, analysis, scored, auth_vars, email_verified,
                   backup_file, feedback_ret>>

\* a lookup that also finds the codes already verified
Redeemable_again(tbl, code) == {u \in DOMAIN tbl : tbl[u].verification_code = code}

\* WHERE verification_code = ? AND is_verified = FALSE
Redeemable(tbl, code) ==
    {u \in DOMAIN tbl : tbl[u].verification_code = code /\ ~tbl[u].is_verified}

\* datetime.now() - created > timedelta(hours=24)
CodeExpired(row, t) == WebHours(t) - row.created_time > VerificationHours

verify_email(verification_code) ==
    /\ IF Redeemable(email_verifications, verification_code) = {}
       THEN /\ verify_ret' = VerifyCall("verify_email", FALSE, "invalid", verification_code, now)
            /\ UNCHANGED <<email_verifications, email_verified, verify_seen>>
       ELSE \E user_id \in Redeemable(email_verifications, verification_code) :
              IF CodeExpired(email_verifications[user_id], now)
              THEN /\ verify_ret' =
                        VerifyCall("verify_email", FALSE, "expired", verification_code, now)
                   /\ UNCHANGED <<email_verifications, email_verified, verify_seen>>
              ELSE \/ /\ email_verifications' =
                           [u \in DOMAIN email_verifications |->
                               IF email_verifications[u].verification_code = verification_code
                               THEN [email_verifications[u] EXCEPT !.is_verified = TRUE]
                               ELSE email_verifications[u]]
                      /\ email_verified' = email_verified \cup {user_id}
                      /\ verify_ret' =
                           VerifyCall("verify_email", TRUE, user_id, verification_code, now)
                      /\ verify_seen' =
                           [verify_seen EXCEPT !.redeemed = @ \cup {verification_code}]
                   \* an UPDATE raises (database locked, users without the
                   \* email_verified column): nothing is committed
                   \/ /\ verify_ret' =
                           VerifyCall("verify_email", FALSE, "failed", verification_code, now)
                      /\ UNCHANGED <<email_verifications, email_verified, verify_seen>>
    /\ UNCHANGED <<ro_vars, rvm_vars, parsed, analysis, scored, auth_vars,
                   backup_file, feedback_ret>>

NextVerify ==
    \/ \E user_id \in Accounts, code \in Codes : send_verification_email(user_id, code)
    \/ \E code \in Codes : verify_email(code)
    \/ Elapse

----------------------------------------------------------------------------
(* email_service.EmailService: the backup file data/feedback_backup.json    *)

\* the feedbacks: what json.dump can write, and one it cannot
Feedbacks ==
    {[content |-> "f1", serializable |-> TRUE], [content |-> "f2", serializable |-> TRUE],
     [content |-> "f3", serializable |-> TRUE], [content |-> "f4", serializable |-> FALSE]}

\* the file: not there, holding a JSON list, or holding what json.load rejects
BackupFile(exists, readable, entries) ==
    [exists |-> exists, readable |-> readable, entries |-> entries]

FeedbackInit ==
    /\ backup_file = BackupFile(FALSE, FALSE, <<>>)
    /\ feedback_ret = [op |-> "init"]

\* get_backup_feedbacks, and the read of _save_to_backup: [] when the file is
\* missing or cannot be loaded
Loaded(file) == IF file.exists /\ file.readable THEN file.entries ELSE <<>>

\* open(backup_file, 'w') empties the file, json.dump writes the list; a
\* feedback json.dump cannot encode raises in the middle of the writing, the
\* exception is logged and the file is left with what had been written
_save_to_backup(file, feedback) ==
    IF feedback.serializable
    THEN BackupFile(TRUE, TRUE, Append(Loaded(file), feedback.content))
    ELSE BackupFile(TRUE, FALSE, <<>>)

\* the providers in order: 163 has no sender_password and is skipped; Gmail
\* is tried, and _send_via_smtp returns True or raises
Providers == <<[name |-> "Gmail", sender_password |-> TRUE],
               [name |-> "163", sender_password |-> FALSE]>>

Attempted(smtp) ==
    SelectSeq(Providers, LAMBDA config :
        /\ config.sender_password
        /\ \A i \in DOMAIN Providers :
              (Providers[i].sender_password /\ smtp[Providers[i].name] = "sent")
                  => \A j \in DOMAIN Providers : Providers[j] = config => j <= i)

send_feedback_email(feedback, smtp) ==
    /\ Len(Loaded(backup_file)) < MaxBackup
    /\ backup_file' = _save_to_backup(backup_file, feedback)
    /\ feedback_ret' =
          [op |-> "send_feedback_email", feedback |-> feedback,
           events |-> <<"save">> \o [i \in DOMAIN Attempted(smtp) |-> Attempted(smtp)[i].name],
           delivered |-> \E i \in DOMAIN Attempted(smtp) : smtp[Attempted(smtp)[i].name] = "sent"]
    /\ UNCHANGED <<ro_vars, rvm_vars, parsed, analysis, scored, auth_vars,
                   email_verifications, email_verified, verify_ret, verify_seen>>

Outcomes == [{"Gmail", "163"} -> {"sent", "fails"}]

NextFeedback == \E feedback \in Feedbacks, smtp \in Outcomes : send_feedback_email(feedback, smtp)

----------------------------------------------------------------------------
EmptyTable == <<>>

RvmCall(op, res, known) == [op |-> op, res |-> res, known |-> known, replaced |-> FALSE]

RvmInit ==
    /\ rvm_versions = EmptyTable
    /\ rvm_comparisons = <<>>
    /\ rvm_ret = RvmCall("init", "ok", TRUE)
    /\ parsed = [op |-> "init"]
    /\ analysis = [op |-> "init"]
    /\ scored = [op |-> "init"]
    /\ AuthInit
    /\ VerifyInit
    /\ FeedbackInit

Conns == {"c1", "c2"}

IdleConn == [pc |-> "idle", target |-> NoId, view |-> EmptyTable]

Init ==
    /\ now = 0
    /\ resume_versions = EmptyTable
    /\ version_comparisons = {}
    /\ ret = Call("init", NoId, NULL, "ok")
    /\ prev = NoId
    /\ conns = [c \in Conns |-> IdleConn]
    /\ db_lock = NoConn
    /\ seen = [ids |-> {}, open |-> NoConn]
    /\ RvmInit

Next ==
    \/ \E uid \in Owners, name \in Names, data \in Datas, sfx \in Suffixes :
          create_version(uid, name, data, sfx)
    \/ \E vid \in IssuedIds : get_version(vid)
    \/ \E uid \in Owners : list_versions(uid)
    \/ \E vid \in IssuedIds : set_active_version(vid)
    \/ \E vid \in IssuedIds : delete_version(vid)
    \/ \E vid \in IssuedIds, u \in Updates : update_version(vid, u)
    \/ get_active_version

Spec == Init /\ [][Next]_vars

\* the version table together with the comparison cache
NextCache ==
    \/ \E sfx \in Suffixes : create_version(NULL, "n1", "d1", sfx)
    \/ \E vid \in IssuedIds : delete_version(vid)
    \/ \E v1, v2 \in IssuedIds, cid \in CmpIds : cache_comparison(v1, v2, "r1", cid)
    \/ \E v1, v2 \in IssuedIds : get_cached_comparison(v1, v2)

SpecCache == Init /\ [][NextCache]_vars

\* The comparison a caller computes from the resume data of two versions and
\* hands to cache_comparison: "r1" for equal data, "r2" for different data.
Compare(data1, data2) == IF data1 = data2 THEN "r1" ELSE "r2"

\* edits of the resume data next to the cache: one version per clock reading,
\* a comparison of an older with a newer version is cached when the cache has
\* none for the pair, and the cache rows are numbered as they come
NextStale ==
    \/ \E data \in Datas : create_version(NULL, "n1", data, 1)
    \/ \E vid \in IssuedIds, u \in Updates :
          u.name = Absent /\ u.is_active = Absent /\ update_version(vid, u)
    \/ \E v1, v2 \in Stored :
          /\ v1[1] < v2[1] /\ PairRows(version_comparisons, v1, v2) = {}
          /\ cache_comparison(v1, v2, Compare(resume_versions[v1].resume_data,
                                              resume_versions[v2].resume_data),
                              Cardinality(version_comparisons) + 1)
    \/ \E v1, v2 \in Stored : v1[1] < v2[1] /\ get_cached_comparison(v1, v2)
    \/ Tick

SpecStale == Init /\ [][NextStale]_vars

\* user_data_migration.UserDataMigrator.cleanup_anonymous_data works on the
\* same database file (data/templates.db): DELETE FROM resume_versions WHERE
\* user_id IS NULL AND datetime(created_time) < datetime(cutoff, 'unixepoch'),
\* with cutoff = now - days_old days (the clock is taken to read UTC); the
\* version_comparisons table is not named in it
DaysOld == {0, 7}

Anonymous(tbl, days_old, t) ==
    {v \in DOMAIN tbl : /\ tbl[v].user_id = NULL
                        /\ Hours(tbl[v].created_time) < Hours(t) - days_old * 24}

cleanup_anonymous_data(days_old) ==
    /\ resume_versions' =
          [v \in Stored \ Anonymous(resume_versions, days_old, now) |-> resume_versions[v]]
    /\ ret' = [Call("cleanup_anonymous_data", NoId, NULL, "ok") EXCEPT
                  !.n = Cardinality(Anonymous(resume_versions, days_old, now))]
    /\ prev' = RememberSet
    /\ UNCHANGED <<now, version_comparisons, conns, db_lock, seen, rvm_vars, aux_vars>>

\* the operations that add or remove versions and cache rows; the comparisons
\* cached are those of two stored versions
NextPurge ==
    \/ \E uid \in Owners, sfx \in Suffixes : create_version(uid, "n1", "d1", sfx)
    \/ \E vid \in IssuedIds : delete_version(vid)
    \/ \E v1, v2 \in Stored, cid \in CmpIds : cache_comparison(v1, v2, "r1", cid)
    \/ \E days_old \in DaysOld : cleanup_anonymous_data(days_old)
    \/ Tick

SpecPurge == Init /\ [][NextPurge]_vars

----------------------------------------------------------------------------
(* set_active_version, statement by statement, on concurrent connections.   *)
(* Each call opens its own connection (sqlite3.connect, default isolation    *)
(* level): the first UPDATE opens a transaction and takes the database's     *)
(* write lock, the changes stay private to the connection until commit(),    *)
(* and a connection that finds the lock taken gives up after the busy         *)
(* timeout with "database is locked".                                         *)

\* a connection in autocommit mode: the clear statement is committed at once
conn_clear_autocommit(c, vid) ==
    /\ conns[c].pc = "idle"
    /\ db_lock = NoConn
    /\ db_lock' = c
    /\ resume_versions' = ClearAll(resume_versions)
    /\ conns' = [conns EXCEPT ![c] =
                    [pc |-> "cleared", target |-> vid, view |-> ClearAll(resume_versions)]]
    /\ UNCHANGED <<now, version_comparisons, ret, prev, seen, rvm_vars, aux_vars>>

\* cursor.execute('UPDATE resume_versions SET is_active = FALSE')
conn_clear(c, vid) ==
    /\ conns[c].pc = "idle"
    /\ db_lock = NoConn
    /\ db_lock' = c
    /\ conns' = [conns EXCEPT ![c] =
                    [pc |-> "cleared", target |-> vid, view |-> ClearAll(resume_versions)]]
    /\ UNCHANGED <<now, resume_versions, version_comparisons, ret, prev, seen, rvm_vars, aux_vars>>

\* the same statement while another connection holds the write lock:
\* OperationalError, conn.rollback(), raise
conn_busy(c, vid) ==
    /\ conns[c].pc = "idle"
    /\ db_lock \notin {NoConn, c}
    /\ conns' = [conns EXCEPT ![c] = [pc |-> "failed", target |-> vid, view |-> EmptyTable]]
    /\ UNCHANGED <<now, resume_versions, version_comparisons, ret, prev, db_lock, seen, rvm_vars, aux_vars>>

\* cursor.execute('UPDATE resume_versions SET is_active = TRUE WHERE version_id = ?')
conn_set(c) ==
    /\ conns[c].pc = "cleared"
    /\ conns' = [conns EXCEPT ![c].pc = "set",
                              ![c].view = SetOne(conns[c].view, conns[c].target)]
    /\ UNCHANGED <<now, resume_versions, version_comparisons, ret, prev, db_lock, seen, rvm_vars, aux_vars>>

\* conn.commit()
conn_commit(c) ==
    /\ conns[c].pc = "set"
    /\ resume_versions' = conns[c].view
    /\ db_lock' = NoConn
    /\ conns' = [conns EXCEPT ![c].pc = "done", ![c].view = EmptyTable]
    /\ UNCHANGED <<now, version_comparisons, ret, prev, seen, rvm_vars, aux_vars>>

\* an exception inside the try block (I/O error, commit refused): conn.rollback(), raise
conn_rollback(c) ==
    /\ conns[c].pc \in {"cleared", "set"}
    /\ db_lock' = NoConn
    /\ conns' = [conns EXCEPT ![c].pc = "failed", ![c].view = EmptyTable]
    /\ UNCHANGED <<now, resume_versions, version_comparisons, ret, prev, seen, rvm_vars, aux_vars>>

\* finally: conn.close(); the next call opens a new connection
conn_close(c) ==
    /\ conns[c].pc \in {"done", "failed"}
    /\ conns' = [conns EXCEPT ![c] = IdleConn]
    /\ UNCHANGED <<now, resume_versions, version_comparisons, ret, prev, db_lock, seen, rvm_vars, aux_vars>>

\* a reader on a connection of its own sees the committed rows only
reader ==
    /\ seen' = [ids |-> ActiveIn(resume_versions), open |-> db_lock]
    /\ UNCHANGED <<now, resume_versions, version_comparisons, ret, prev, conns, db_lock, rvm_vars, aux_vars>>

\* the stores the concurrent calls start from: every id of the first clock
\* reading is stored, and none or one of them is active
ConcIds == {i \in IdSpace : i[1] = 0}

ConcRow(a) ==
    [name |-> "n1", resume_data |-> "d1", created_time |-> 0, is_active |-> a, user_id |-> NULL]

ConcTables ==
    {[v \in ConcIds |-> ConcRow(v = w)] : w \in ConcIds \cup {NoId}}

InitConc ==
    /\ now = 0
    /\ resume_versions \in ConcTables
    /\ version_comparisons = {}
    /\ ret = Call("init", NoId, NULL, "ok")
    /\ prev = NoId
    /\ conns = [c \in Conns |-> IdleConn]
    /\ db_lock = NoConn
    /\ seen = [ids |-> ActiveIn(resume_versions), open |-> NoConn]
    /\ RvmInit

NextConc ==
    \/ \E c \in Conns, vid \in ConcIds : conn_clear(c, vid)
    \/ \E c \in Conns, vid \in ConcIds : conn_busy(c, vid)
    \/ \E c \in Conns : conn_set(c)
    \/ \E c \in Conns : conn_commit(c)
    \/ \E c \in Conns : conn_rollback(c)
    \/ \E c \in Conns : conn_close(c)
    \/ reader

SpecConc == InitConc /\ [][NextConc]_vars

\* C2: under any interleaving of concurrent set_active_version calls on stored
\* versions with readers, the committed table never holds two active versions,
\* no reader sees two, and no step takes the committed table from one active
\* version to none or changes it to anything but exactly one active version.
C2_SetActiveIsOneTransaction ==
    /\ [](Cardinality(ActiveIn(resume_versions)) <= 1 /\ Cardinality(seen.ids) <= 1)
    /\ [][(ActiveIn(resume_versions) # {} \/ resume_versions' # resume_versions)
             => Cardinality(ActiveIn(resume_versions')) = 1]_vars
    /\ [][(seen.ids # {}) => Cardinality(seen.ids') = 1]_vars

\* a reader looked while a call was between its clear and its commit, with
\* the other call turned away, and saw the one active version
C2_Witness ==
    /\ seen.open # NoConn
    /\ db_lock = seen.open
    /\ conns[db_lock].pc \in {"cleared", "set"}
    /\ ActiveIn(conns[db_lock].view) # ActiveIn(resume_versions)
    /\ Cardinality(seen.ids) = 1
    /\ \E c \in Conns : conns[c].pc = "failed"

----------------------------------------------------------------------------
(* resume_version_manager.ResumeVersionManager *)

Companies == {"acme", "globex"}
Positions == {"dev"}

\* version_id = md5(f"{target_company}_{target_position}_{now.isoformat()}")[:12]:
\* a function of the company, the position and the clock reading, and nothing
\* else (the digest is taken to separate different inputs)
RvmId(company, position, t) == <<company, position, t>>

RvmIdSpace == {RvmId(c, p, t) : c \in Companies, p \in Positions, t \in 0..MaxTicks}
RvmIssuedIds == {i \in RvmIdSpace : i[3] <= now}

\* resume contents, dictionaries with top-level sections
ContentA ==
    [personal_info |-> [full_name |-> "ann", email |-> "ann@x.org"],
     work_experience |-> <<"w1">>, education |-> <<"e1">>,
     projects |-> <<>>, skills |-> <<"python">>]

ContentB ==
    [personal_info |-> [full_name |-> "ann", email |-> "ann@y.org"],
     work_experience |-> <<"w1", "w2">>, education |-> <<"e1">>,
     projects |-> <<>>, skills |-> <<"python", "sql">>]

Contents == {ContentA, ContentB}

\* ContentA with another education list
ContentC == [ContentA EXCEPT !.education = <<"e1", "e2">>]

\* create_version takes any dictionary, the empty one included
ComparedContents == Contents \cup {ContentC, <<>>}

\* dict.get(key, default)
Get(d, k, default) == IF k \in DOMAIN d THEN d[k] ELSE default

EmptyDict == <<>>

\* personal1.get(k) != personal2.get(k): a missing key reads as None
SameAt(d1, d2, k) ==
    /\ (k \in DOMAIN d1) = (k \in DOMAIN d2)
    /\ k \in DOMAIN d1 => d1[k] = d2[k]

Entry(cond, k, v) == IF cond THEN k :> v ELSE EmptyDict

_calculate_differences(content1, content2) ==
    LET personal1 == Get(content1, "personal_info", EmptyDict)
        personal2 == Get(content2, "personal_info", EmptyDict)
        personal_diff ==
            {k \in DOMAIN personal1 \cup DOMAIN personal2 : ~SameAt(personal1, personal2, k)}
        work1 == Get(content1, "work_experience", <<>>)
        work2 == Get(content2, "work_experience", <<>>)
        projects1 == Get(content1, "projects", <<>>)
        projects2 == Get(content2, "projects", <<>>)
        skills1 == Range(Get(content1, "skills", <<>>))
        skills2 == Range(Get(content2, "skills", <<>>))
    IN  Entry(personal_diff # {}, "personal_info",
              [k \in personal_diff |->
                  [v1 |-> Get(personal1, k, "None"), v2 |-> Get(personal2, k, "None")]])
        @@ Entry(work1 # work2, "work_experience",
                 [count_diff |-> Len(work2) - Len(work1), content_changed |-> TRUE])
        @@ Entry(projects1 # projects2, "projects",
                 [count_diff |-> Len(projects2) - Len(projects1), content_changed |-> TRUE])
        @@ Entry(skills1 # skills2, "skills",
                 [added |-> skills2 \ skills1, removed |-> skills1 \ skills2])

\* same_fields / total_fields, kept as the pair <<same_fields, total_fields>>;
\* 0.0 for two empty contents is <<0, 1>>
_calculate_similarity(content1, content2) ==
    LET all_keys == DOMAIN content1 \cup DOMAIN content2
        same_fields == Cardinality({k \in all_keys : SameAt(content1, content2, k)})
        total_fields == Cardinality(all_keys)
    IN  IF total_fields > 0 THEN <<same_fields, total_fields>> ELSE <<0, 1>>

\* similarity_score > 0.9, > 0.7, > 0.5
_generate_comparison_recommendation(differences, sim) ==
    IF 10 * sim[1] > 9 * sim[2] THEN "nearly identical"
    ELSE IF 10 * sim[1] > 7 * sim[2] THEN "moderate difference"
    ELSE IF 10 * sim[1] > 5 * sim[2] THEN "large difference"
    ELSE "very large difference"

RvmStored == DOMAIN rvm_versions

\* INSERT OR REPLACE INTO resume_versions: a row with the same id is replaced
_save_version(tbl, version) ==
    [v \in DOMAIN tbl \cup {version.id} |-> IF v = version.id THEN version ELSE tbl[v]]

rvm_create_version(resume_content, target_company, target_position) ==
    LET version_id == RvmId(target_company, target_position, now)
        version == [id |-> version_id, content |-> resume_content, created_time |-> now,
                    last_modified |-> now, is_active |-> TRUE]
    IN  /\ Cardinality(RvmStored) < MaxVersions \/ version_id \in RvmStored
        /\ rvm_versions' = _save_version(rvm_versions, version)
        /\ rvm_ret' = [RvmCall("create_version", "ok", TRUE) EXCEPT
                          !.replaced = version_id \in RvmStored]
        /\ UNCHANGED <<ro_vars, rvm_comparisons, aux_vars>>

rvm_get_version(version_id) ==
    /\ rvm_ret' = IF version_id \in RvmStored
                  THEN RvmCall("get_version", "found", TRUE)
                  ELSE RvmCall("get_version", "none", FALSE)
    /\ UNCHANGED <<ro_vars, rvm_versions, rvm_comparisons, aux_vars>>

\* the updates dictionary; setattr is applied to every key that names a
\* field of ResumeVersion, 'id' included
Opt(k, V) == {EmptyDict} \cup {k :> v : v \in V}

RvmUpdates ==
    {a @@ b : a \in Opt("content", Contents), b \in Opt("is_active", {FALSE})}
        \cup {"id" :> i : i \in RvmIssuedIds}

RvmApplyUpdates(version, u, t) ==
    [version EXCEPT !.content = Get(u, "content", @),
                    !.is_active = Get(u, "is_active", @),
                    !.id = Get(u, "id", @),
                    !.last_modified = t]

rvm_update(version_id, u, op) ==
    IF version_id \notin RvmStored
    THEN /\ rvm_ret' = RvmCall(op, "false", FALSE)
         /\ UNCHANGED rvm_versions
    ELSE LET version == RvmApplyUpdates(rvm_versions[version_id], u, now) IN
         /\ Cardinality(RvmStored) < MaxVersions \/ version.id \in RvmStored
         /\ rvm_versions' = _save_version(rvm_versions, version)
         /\ rvm_ret' = RvmCall(op, "true", TRUE)

rvm_update_version(version_id, u) ==
    /\ rvm_update(version_id, u, "update_version")
    /\ UNCHANGED <<ro_vars, rvm_comparisons, aux_vars>>

\* soft delete: update_version(version_id, {'is_active': False})
rvm_delete_version(version_id) ==
    /\ rvm_update(version_id, "is_active" :> FALSE, "delete_version")
    /\ UNCHANGED <<ro_vars, rvm_comparisons, aux_vars>>

VersionComparison(v1, v2, c1, c2) ==
    [version1_id |-> v1, version2_id |-> v2,
     differences |-> _calculate_differences(c1, c2),
     similarity_score |-> _calculate_similarity(c1, c2),
     recommendation |->
         _generate_comparison_recommendation(_calculate_differences(c1, c2),
                                             _calculate_similarity(c1, c2))]

\* INSERT INTO version_comparisons (AUTOINCREMENT id): one more row per call
_save_comparison(rows, comparison, t) ==
    Append(rows, [version1_id |-> comparison.version1_id,
                  version2_id |-> comparison.version2_id,
                  differences |-> comparison.differences,
                  similarity_score |-> comparison.similarity_score,
                  comparison_time |-> t])

\* raise ValueError("版本不存在") when either version is missing; otherwise the
\* comparison is computed from the current contents and saved, on every call
rvm_compare_versions(version1_id, version2_id) ==
    /\ IF version1_id \notin RvmStored \/ version2_id \notin RvmStored
       THEN /\ rvm_ret' = RvmCall("compare_versions", "raise", FALSE)
            /\ UNCHANGED rvm_comparisons
       ELSE LET comparison == VersionComparison(version1_id, version2_id,
                                                rvm_versions[version1_id].content,
                                                rvm_versions[version2_id].content)
            IN  /\ Len(rvm_comparisons) < MaxCacheRows
                /\ rvm_comparisons' = _save_comparison(rvm_comparisons, comparison, now)
                /\ rvm_ret' = RvmCall("compare_versions", "ok", TRUE)
    /\ UNCHANGED <<ro_vars, rvm_versions, aux_vars>>

\* "if not version: return {}"
rvm_generate_version_report(version_id) ==
    /\ rvm_ret' = IF version_id \in RvmStored
                  THEN RvmCall("generate_version_report", "report", TRUE)
                  ELSE RvmCall("generate_version_report", "empty", FALSE)
    /\ UNCHANGED <<ro_vars, rvm_versions, rvm_comparisons, aux_vars>>

NextRvm ==
    \/ \E k \in Contents, c \in Companies, p \in Positions : rvm_create_version(k, c, p)
    \/ \E v \in RvmIssuedIds : rvm_get_version(v)
    \/ \E v \in RvmIssuedIds, u \in RvmUpdates : rvm_update_version(v, u)
    \/ \E v \in RvmIssuedIds : rvm_delete_version(v)
    \/ \E v1, v2 \in RvmIssuedIds : v1 # v2 /\ rvm_compare_versions(v1, v2)
    \/ \E v \in RvmIssuedIds : rvm_generate_version_report(v)
    \/ Tick

SpecRvm == Init /\ [][NextRvm]_vars

\* the creates and the comparisons alone, over more contents
NextCompare ==
    \/ \E k \in ComparedContents, c \in Companies, p \in Positions :
           rvm_create_version(k, c, p)
    \/ \E v1, v2 \in RvmIssuedIds : v1 # v2 /\ rvm_compare_versions(v1, v2)
    \/ Tick

SpecCompare == Init /\ [][NextCompare]_vars

----------------------------------------------------------------------------
(* enhanced_resume_parser.EnhancedResumeParser.parse_resume *)

\* Values of the document the model returns, tagged with their Python type.
\* A skill string is kept as its lower-case form w and its spelling c, so that
\* s.lower() is s.w.
D(v) == [t |-> "dict", v |-> v]
L(v) == [t |-> "list", v |-> v]
S(v) == [t |-> "str", v |-> v]
None == [t |-> "none"]
Word(w, c) == [w |-> w, c |-> c]

Min(a, b) == IF a < b THEN a ELSE b

Categories == {"programming_languages", "frameworks_libraries", "databases",
               "cloud_platforms", "tools_software", "methodologies", "soft_skills"}

PersonalFields == {"full_name", "email", "phone", "location", "linkedin", "github",
                   "portfolio", "years_of_experience"}

JobFields == {"job_title", "company", "location", "start_date", "end_date", "duration",
              "responsibilities", "achievements", "technologies_used"}

EducationFields == {"school", "degree", "major", "start_date", "end_date", "gpa",
                    "honors", "relevant_courses"}

ProjectFields == {"name", "description", "role", "duration", "team_size", "technologies",
                  "achievements", "github_url", "demo_url"}

_create_fallback_structure ==
    [personal_info |-> D([f \in PersonalFields |-> ""]),
     technical_skills |-> D([c \in Categories |-> L(<<>>)]),
     work_experience |-> L(<<>>), education |-> L(<<>>), projects |-> L(<<>>),
     certifications |-> L(<<>>), notable_achievements |-> L(<<>>), languages |-> L(<<>>)]

_create_fallback_resume(raw_text) ==
    [personal_info |-> [f \in PersonalFields |-> ""],
     technical_skills |-> [c \in Categories |-> <<>>],
     work_experience |-> <<>>, education |-> <<>>, projects |-> <<>>,
     certifications |-> L(<<>>), notable_achievements |-> L(<<>>), languages |-> L(<<>>),
     raw_text |-> raw_text, parsing_confidence |-> 0, fallback |-> TRUE]

Ok(v) == [exc |-> FALSE, val |-> v]
Raised == [exc |-> TRUE, val |-> <<>>]

\* What the completion call gives: an API error, text that yaml.safe_load
\* rejects (truncated JSON), text that loads as something other than a mapping
\* (prose loads as a string), or a mapping.  "import yaml" sits inside the try,
\* so after an API error the clause "except yaml.YAMLError" itself raises
\* UnboundLocalError, which leaves the function.
_extract_with_enhanced_openai(resp) ==
    CASE resp.kind = "api_error" -> Raised
      [] resp.kind = "yaml_error" -> Ok(_create_fallback_structure)
      [] resp.kind = "not_mapping" -> Ok(_create_fallback_structure)
      [] OTHER -> Ok(resp.data)

\* the appends with the skills compared as written, not lower-cased
Appended_as_written(existing, skills) ==
    SelectSeq(skills, LAMBDA x : \A i \in DOMAIN existing : existing[i].c # x.c)

\* the skills of regex list `skills` that are appended to a category: those
\* whose lower-case form is not among the lower-cased skills already there
\* (existing_skills is computed once, before the appends)
Appended(existing, skills) ==
    SelectSeq(skills, LAMBDA x : \A i \in DOMAIN existing : existing[i].w # x.w)

_merge_and_validate_results(ai_result, regex_result) ==
    LET ts == Get(ai_result, "technical_skills", D(EmptyDict))
        cur(c) == Get(ts.v, c, L(<<>>))
    IN  IF ts.t # "dict" THEN Raised
        ELSE IF \E c \in DOMAIN regex_result : cur(c).t # "list" THEN Raised
        ELSE Ok([k \in DOMAIN ai_result \cup {"technical_skills"} |->
                    IF k = "technical_skills"
                    THEN D([c \in DOMAIN ts.v \cup DOMAIN regex_result |->
                              IF c \in DOMAIN regex_result
                              THEN L(cur(c).v \o Appended(cur(c).v, regex_result[c]))
                              ELSE ts.v[c]])
                    ELSE ai_result[k]])

Truthy(x) == x \notin {"", "None"}

\* len(x) when "if x:" lets x through, else 0 (None and empty values are falsy)
Size(x) ==
    CASE x.t = "list" -> Len(x.v)
      [] x.t = "dict" -> Cardinality(DOMAIN x.v)
      [] OTHER -> 0

SumLens(d, keys) ==
    LET RECURSIVE Sum(_)
        Sum(K) == IF K = {} THEN 0
                  ELSE LET k == CHOOSE k \in K : TRUE
                       IN  (IF d[k].t = "list" THEN Len(d[k].v) ELSE 0) + Sum(K \ {k})
    IN  Sum(keys)

\* the score without the closing min(..., 1.0)
_calculate_parsing_confidence_uncapped(data, long_text) ==
    LET personal_info == Get(data, "personal_info", D(EmptyDict))
        tech_skills == Get(data, "technical_skills", D(EmptyDict))
        work_exp == Get(data, "work_experience", L(<<>>))
        education == Get(data, "education", L(<<>>))
        has(f) == IF Truthy(Get(personal_info.v, f, "")) THEN 10 ELSE 0
        total_skills == SumLens(tech_skills.v, DOMAIN tech_skills.v)
    IN  IF personal_info.t # "dict" \/ tech_skills.t # "dict" THEN Raised
        ELSE Ok(has("full_name") + has("email") + has("phone")
                + Min(30, total_skills * 2)
                + Min(25, Size(work_exp) * 8)
                + Min(15, Size(education) * 7)
                + (IF long_text THEN 10 ELSE 0))

\* the score out of max_score = 100; the confidence is score / 100
_calculate_parsing_confidence(data, long_text) ==
    LET personal_info == Get(data, "personal_info", D(EmptyDict))
        tech_skills == Get(data, "technical_skills", D(EmptyDict))
        work_exp == Get(data, "work_experience", L(<<>>))
        education == Get(data, "education", L(<<>>))
        has(f) == IF Truthy(Get(personal_info.v, f, "")) THEN 10 ELSE 0
        total_skills == SumLens(tech_skills.v, DOMAIN tech_skills.v)
    IN  IF personal_info.t # "dict" \/ tech_skills.t # "dict" THEN Raised
        ELSE Ok(Min(100,
                    has("full_name") + has("email") + has("phone")
                    + Min(30, total_skills * 2)
                    + Min(25, Size(work_exp) * 8)
                    + Min(15, Size(education) * 7)
                    + (IF long_text THEN 10 ELSE 0)))

\* [cls(**entry) for entry in x]: x must be iterable (None is not) and every
\* element a mapping whose keys are fields of the dataclass; iterating a
\* mapping yields its keys, which are strings
EntriesFit(x, fields) ==
    CASE x.t = "list" ->
            \A i \in DOMAIN x.v : x.v[i].t = "dict" /\ DOMAIN x.v[i].v \subseteq fields
      [] x.t = "dict" -> DOMAIN x.v = {}
      [] OTHER -> FALSE

Entries(x) == IF x.t = "list" THEN [i \in DOMAIN x.v |-> x.v[i].v] ELSE <<>>

WithDefaults(d, fields, default) == [f \in fields |-> Get(d, f, default)]

ListOrEmpty(x) == IF x.t = "list" THEN x.v ELSE <<>>

_build_enhanced_resume(data, raw_text, confidence) ==
    LET personal_data == Get(data, "personal_info", D(EmptyDict))
        skills_data == Get(data, "technical_skills", D(EmptyDict))
        work_data == Get(data, "work_experience", L(<<>>))
        edu_data == Get(data, "education", L(<<>>))
        proj_data == Get(data, "projects", L(<<>>))
    IN  IF /\ personal_data.t = "dict" /\ DOMAIN personal_data.v \subseteq PersonalFields
           /\ skills_data.t = "dict" /\ DOMAIN skills_data.v \subseteq Categories
           /\ EntriesFit(work_data, JobFields)
           /\ EntriesFit(edu_data, EducationFields)
           /\ EntriesFit(proj_data, ProjectFields)
        THEN [personal_info |-> WithDefaults(personal_data.v, PersonalFields, ""),
              technical_skills |->
                  [c \in Categories |-> ListOrEmpty(Get(skills_data.v, c, None))],
              work_experience |-> Entries(work_data),
              education |-> Entries(edu_data),
              projects |-> Entries(proj_data),
              certifications |-> Get(data, "certifications", L(<<>>)),
              notable_achievements |-> Get(data, "notable_achievements", L(<<>>)),
              languages |-> Get(data, "languages", L(<<>>)),
              raw_text |-> raw_text, parsing_confidence |-> confidence,
              fallback |-> FALSE]
        ELSE _create_fallback_resume(raw_text)

\* The texts: name stands for the characters, empty for "not text", long for
\* len(text.strip()) > 200, regex for what _extract_skills_with_regex finds.
NoSkills == [c \in Categories |-> <<>>]

Text(name, empty, long, regex) ==
    [name |-> name, empty |-> empty, long |-> long, regex |-> regex @@ NoSkills]

Texts ==
    {Text("", TRUE, FALSE, EmptyDict),
     Text("short", FALSE, FALSE, EmptyDict),
     Text("short Python", FALSE, FALSE,
          "programming_languages" :> <<Word("python", "Python")>>),
     Text("long", FALSE, TRUE, EmptyDict),
     Text("long Python docker", FALSE, TRUE,
          "programming_languages" :> <<Word("python", "Python")>>
              @@ "tools_software" :> <<Word("docker", "docker")>>)}

\* The responses of the model.
PersonalInfos ==
    {D(EmptyDict), D("full_name" :> "Ann" @@ "email" :> "ann@x.org"),
     D("full_name" :> "Ann" @@ "age" :> "30"), D("full_name" :> "None"), None}

SkillSections ==
    {D("programming_languages" :> L(<<Word("python", "python")>>)),
     D("programming_languages" :> L(<<Word("go", "Go")>>) @@ "databases" :> None),
     None}

JobSections ==
    {L(<<>>), L(<<D("job_title" :> "dev" @@ "company" :> "acme")>>),
     L(<<D("job_title" :> "dev" @@ "salary" :> "1")>>), None}

EducationSections == {L(<<D("school" :> "mit")>>)}

Mappings ==
    {a @@ b @@ c @@ d : a \in Opt("personal_info", PersonalInfos),
                        b \in Opt("technical_skills", SkillSections),
                        c \in Opt("work_experience", JobSections),
                        d \in Opt("education", EducationSections)}

\* a mapping with every section filled: ManySkills skills, three jobs, two
\* schools
RichMapping ==
    "personal_info" :> D("full_name" :> "Ann" @@ "email" :> "ann@x.org" @@ "phone" :> "555")
    @@ "technical_skills" :>
           D("programming_languages" :> L([i \in 1..ManySkills |-> Word("go", "Go")]))
    @@ "work_experience" :> L([i \in 1..3 |-> D("job_title" :> "dev")])
    @@ "education" :> L([i \in 1..2 |-> D("school" :> "mit")])

Responses ==
    {[kind |-> "api_error"], [kind |-> "yaml_error"]}
        \cup {[kind |-> "not_mapping", loaded |-> t] : t \in {"str", "list", "none"}}
        \cup {[kind |-> "mapping", data |-> m] : m \in Mappings \cup {RichMapping}}

\* The files: file_path is None or names a file with an extension, which
\* exists or not and holds a text.
Files ==
    {[t |-> "path", extension |-> e, exists |-> x, content |-> c] :
        e \in {"txt", "xyz"}, x \in BOOLEAN,
        c \in {text \in Texts : text.name = "long Python docker"}}

\* a missing file and an unsupported extension raise inside the try, whose
\* handler returns ""
_extract_text_enhanced(file_path) ==
    IF file_path.exists /\ file_path.extension \in {"pdf", "docx", "doc", "txt"}
    THEN file_path.content
    ELSE Text("", TRUE, FALSE, EmptyDict)

\* "if file_path: text = ... elif not text: raise ValueError": the text the
\* steps after it work on, and whether they are reached
TextOf(file_path, text) ==
    IF file_path.t = "path" THEN _extract_text_enhanced(file_path) ELSE text

Proceeds(file_path, text) == file_path.t = "path" \/ ~text.empty

\* parse_resume: every exception ends in _create_fallback_resume
ParseResume(text, resp) ==
    LET structured_data == _extract_with_enhanced_openai(resp) IN
    IF structured_data.exc THEN _create_fallback_resume(text.name)
    ELSE LET final_data == _merge_and_validate_results(structured_data.val, text.regex) IN
         IF final_data.exc THEN _create_fallback_resume(text.name)
         ELSE LET confidence == _calculate_parsing_confidence(final_data.val, text.long) IN
              IF confidence.exc THEN _create_fallback_resume(text.name)
              ELSE _build_enhanced_resume(final_data.val, text.name, confidence.val)

\* completions: the completion calls made; raised: parse_resume has no path
\* on which an exception leaves it
parse_resume(file_path, text, resp) ==
    /\ parsed' = [op |-> "parse_resume", file_path |-> file_path,
                  text |-> TextOf(file_path, text), resp |-> resp,
                  resume |-> IF Proceeds(file_path, text)
                             THEN ParseResume(TextOf(file_path, text), resp)
                             ELSE _create_fallback_resume(text.name),
                  completions |-> IF Proceeds(file_path, text) THEN 1 ELSE 0,
                  raised |-> FALSE]
    /\ UNCHANGED <<ro_vars, rvm_vars, analysis, scored, auth_vars, mail_vars>>

NextParse ==
    \/ \E text \in Texts, resp \in Responses : parse_resume(None, text, resp)
    \/ \E file_path \in Files, resp \in Responses :
           parse_resume(file_path, Text("", TRUE, FALSE, EmptyDict), resp)

SpecParse == Init /\ [][NextParse]_vars

----------------------------------------------------------------------------
(* advanced_resume_analyzer.AdvancedResumeAnalyzer.analyze_resume_comprehensive *)

\* A JSON number, in tenths.
Num(n) == [t |-> "num", v |-> n]

\* A round-trip to the model: the call raises, the content is rejected by
\* json.loads, or it loads as the tagged value `loaded`.
ApiError == [kind |-> "api_error"]
BadJson == [kind |-> "bad_json"]
Json(x) == [kind |-> "json", loaded |-> x]

\* len(x); TypeError for None and numbers
HasLen(x) == x.t \in {"list", "dict", "str"}

PyLen(x) == IF x.t = "dict" THEN Cardinality(DOMAIN x.v) ELSE Len(x.v)

\* bool(x)
TruthyValue(x) ==
    CASE x.t = "none" -> FALSE
      [] x.t = "num" -> x.v # 0
      [] OTHER -> PyLen(x) # 0

\* the json.loads result is returned as it is; {} on any exception
_extract_detailed_info(resp) ==
    IF resp.kind = "json" THEN resp.loaded ELSE D(EmptyDict)

\* "data = json.loads(result); return data.get(key, default)" inside a try
\* whose handler returns the same default
DataGet(resp, key, default) ==
    IF resp.kind = "json" /\ resp.loaded.t = "dict"
    THEN Get(resp.loaded.v, key, default)
    ELSE default

_extract_soft_skills(resp) == DataGet(resp, "soft_skills", L(<<>>))

\* The resume text, by what the analyzer's patterns find in it: the format
\* score in fortieths, the quantification score in tenths, the numbers of
\* technical skills, tools and certificates.
AnalyzerTexts ==
    {[format40 |-> 26, quant10 |-> 4, tech |-> 2, tools |-> 1, certs |-> 0]}

_analyze_skills_comprehensive(resume_text, resp) ==
    [technical_skills |-> resume_text.tech, soft_skills |-> _extract_soft_skills(resp),
     tools_and_platforms |-> resume_text.tools, certifications |-> resume_text.certs]

\* the strings in which a quantification pattern matches
QuantifiedTexts == {"cut cost by 35%"}

ExperienceAnalysis(exp) ==
    [situation |-> Get(exp, "situation", S("")), task |-> Get(exp, "task", S("")),
     action |-> Get(exp, "action", S("")), result |-> Get(exp, "result", S("")),
     star_completeness |-> Get(exp, "star_completeness", Num(0)),
     missing_elements |-> Get(exp, "missing_elements", L(<<>>)),
     quantified_achievements |->
         \/ Get(exp, "result", S("")).v \in QuantifiedTexts
         \/ Get(exp, "action", S("")).v \in QuantifiedTexts,
     relevant_keywords |-> <<>>]

\* any exception in the loop (an entry that is no mapping, a result or action
\* that is no string) gives the empty list
_analyze_experiences_star(resp) ==
    LET experiences == DataGet(resp, "experiences", L(<<>>))
        fits(e) == /\ e.t = "dict"
                   /\ Get(e.v, "result", S("")).t = "str"
                   /\ Get(e.v, "action", S("")).t = "str"
    IN  IF experiences.t = "list" /\ \A i \in DOMAIN experiences.v : fits(experiences.v[i])
        THEN [i \in DOMAIN experiences.v |-> ExperienceAnalysis(experiences.v[i].v)]
        ELSE <<>>

_evaluate_keyword_match(resp) == DataGet(resp, "keyword_match_score", Num(5))

\* in 1/120
_evaluate_skill_completeness(skills) ==
    IF ~HasLen(skills.soft_skills) THEN Raised
    ELSE Ok(Min(120, Min(skills.technical_skills * 12, 48)
                     + Min(skills.tools_and_platforms * 15, 36)
                     + Min(PyLen(skills.soft_skills) * 20, 24)
                     + Min(skills.certifications * 40, 12)))

\* score in 1/1200: format * 0.3 + keyword * 0.4 (0.3 without a job
\* description) + skills * 0.2 + quantification * 0.1
_calculate_ats_score(resume_text, target_jd, resp, skills) ==
    LET keyword_score == _evaluate_keyword_match(resp)
        skill_score == _evaluate_skill_completeness(skills)
        feedback == [format |-> resume_text.format40 < 32,
                     keyword |-> target_jd /\ keyword_score.v < 7,
                     skill |-> skill_score.val < 72,
                     quantification |-> resume_text.quant10 < 5]
    IN  IF target_jd /\ keyword_score.t # "num" THEN Raised
        ELSE IF skill_score.exc THEN Raised
        ELSE Ok([ats_score |->
                    Min(1200, resume_text.format40 * 9
                              + (IF target_jd THEN keyword_score.v * 48 ELSE 360)
                              + skill_score.val * 2
                              + resume_text.quant10 * 12),
                 ats_feedback |-> feedback])

_generate_jd_specific_suggestions(resp) == DataGet(resp, "suggestions", L(<<>>))

\* suggestions.extend(x) needs an iterable; the responses of the model hold
\* lists, None and numbers here
_generate_optimization_suggestions(target_jd, experiences, skills, resp) ==
    LET jd_suggestions == _generate_jd_specific_suggestions(resp)
        own == [star |-> \E i \in DOMAIN experiences : experiences[i].star_completeness.v < 8,
                quantify |-> \E i \in DOMAIN experiences :
                                 ~experiences[i].quantified_achievements,
                technical |-> skills.technical_skills < 5,
                soft |-> PyLen(skills.soft_skills) < 3]
    IN  IF \E i \in DOMAIN experiences : experiences[i].star_completeness.t # "num"
        THEN Raised
        ELSE IF ~HasLen(skills.soft_skills) THEN Raised
        ELSE IF target_jd /\ ~HasLen(jd_suggestions) THEN Raised
        ELSE Ok([own |-> own,
                 jd |-> IF target_jd /\ jd_suggestions.t = "list"
                        THEN jd_suggestions.v ELSE <<>>])

_identify_missing_keywords(target_jd, resp) ==
    IF ~target_jd THEN L(<<>>) ELSE DataGet(resp, "missing_keywords", L(<<>>))

\* the number of keys of d whose value is truthy
CountTruthy(d, keys) == Cardinality({k \in keys : TruthyValue(Get(d, k, None))})

\* sum(1 for e in x if all(e.get(k) for k in keys)) / len(x) as <<sum, len>>;
\* x falsy gives 0.0; a truthy x that is no list of mappings raises
EntryScore(x, keys) ==
    IF ~TruthyValue(x) THEN Ok(<<0, 1>>)
    ELSE IF x.t # "list" \/ \E i \in DOMAIN x.v : x.v[i].t # "dict" THEN Raised
    ELSE Ok(<<Cardinality({i \in DOMAIN x.v : CountTruthy(x.v[i].v, keys) = Cardinality(keys)}),
              Len(x.v)>>)

\* personal_info and skills as the number of the three keys found
_calculate_confidence_scores(basic_info) ==
    LET personal == Get(basic_info.v, "personal_info", D(EmptyDict))
        work == EntryScore(Get(basic_info.v, "work_experience", L(<<>>)),
                           {"company", "position"})
        edu == EntryScore(Get(basic_info.v, "education", L(<<>>)),
                          {"institution", "degree"})
        skills == Get(basic_info.v, "skills", D(EmptyDict))
    IN  IF basic_info.t # "dict" THEN Raised
        ELSE IF personal.t # "dict" \/ work.exc \/ edu.exc \/ skills.t # "dict" THEN Raised
        ELSE Ok([personal_info |-> CountTruthy(personal.v, {"name", "email", "phone"}),
                 work_experience |-> work.val, education |-> edu.val,
                 skills |-> CountTruthy(skills.v,
                                        {"programming_languages", "frameworks", "tools"})])

\* r[1..6]: the responses to the detailed-info, soft-skills, STAR,
\* keyword-match, suggestions and missing-keywords prompts
AnalyzeResumeComprehensive(resume_text, target_jd, r) ==
    LET basic_info == _extract_detailed_info(r[1])
        skill_extraction == _analyze_skills_comprehensive(resume_text, r[2])
        experience_analyses == _analyze_experiences_star(r[3])
        ats == _calculate_ats_score(resume_text, target_jd, r[4], skill_extraction)
        optimization_suggestions ==
            _generate_optimization_suggestions(target_jd, experience_analyses,
                                               skill_extraction, r[5])
        missing_keywords == _identify_missing_keywords(target_jd, r[6])
        confidence_scores == _calculate_confidence_scores(basic_info)
    IN  IF ats.exc \/ optimization_suggestions.exc \/ confidence_scores.exc THEN Raised
        ELSE Ok([basic_info |-> basic_info, skill_extraction |-> skill_extraction,
                 experience_analyses |-> experience_analyses,
                 ats_score |-> ats.val.ats_score, ats_feedback |-> ats.val.ats_feedback,
                 optimization_suggestions |-> optimization_suggestions.val,
                 missing_keywords |-> missing_keywords,
                 confidence_scores |-> confidence_scores.val])

DetailedInfoResponses ==
    {ApiError, BadJson,
     Json(D("personal_info" :> D("name" :> S("Ann") @@ "email" :> S("ann@x.org"))
            @@ "work_experience" :> L(<<D("company" :> S("acme"))>>))),
     Json(D("personal_info" :> None)),
     Json(L(<<>>))}

SoftSkillsResponses ==
    {ApiError, Json(D("soft_skills" :> L(<<S("teamwork")>>))), Json(D("soft_skills" :> None))}

StarResponses ==
    {ApiError,
     Json(D("experiences" :> L(<<D("result" :> S("cut cost by 35%")
                                   @@ "star_completeness" :> Num(5))>>))),
     Json(D("experiences" :> L(<<D("result" :> S("shipped")
                                   @@ "star_completeness" :> S("high"))>>)))}

KeywordResponses ==
    {ApiError, Json(D("keyword_match_score" :> Num(8))),
     Json(D("keyword_match_score" :> S("0.8")))}

SuggestionResponses ==
    {ApiError, Json(D("suggestions" :> L(<<S("add keywords")>>))),
     Json(D("suggestions" :> None))}

MissingKeywordResponses ==
    {ApiError, Json(D("missing_keywords" :> L(<<S("kubernetes")>>))), Json(L(<<>>))}

RoundTrips ==
    {<<a, b, c, d, e, f>> : a \in DetailedInfoResponses, b \in SoftSkillsResponses,
                            c \in StarResponses, d \in KeywordResponses,
                            e \in SuggestionResponses, f \in MissingKeywordResponses}

analyze_resume_comprehensive(resume_text, target_jd, r) ==
    /\ analysis' = [op |-> "analyze_resume_comprehensive", resume_text |-> resume_text,
                    target_jd |-> target_jd, r |-> r,
                    out |-> AnalyzeResumeComprehensive(resume_text, target_jd, r)]
    /\ UNCHANGED <<ro_vars, rvm_vars, parsed, scored, auth_vars, mail_vars>>

NextAnalyze ==
    \E resume_text \in AnalyzerTexts, target_jd \in BOOLEAN, r \in RoundTrips :
        analyze_resume_comprehensive(resume_text, target_jd, r)

SpecAnalyze == Init /\ [][NextAnalyze]_vars

----------------------------------------------------------------------------
(* resume_optimizer.ResumeOptimizer.calculate_ats_score *)

\* A Python string is the sequence of its characters; a character outside
\* ASCII is written as its code point.
IncreasedThroughput ==
    <<"i", "n", "c", "r", "e", "a", "s", "e", "d", " ", "t", "h", "r", "o", "u", "g",
      "h", "p", "u", "t", " ", "b", "y", " ", "3", "5", "%">>

ReducedCost ==
    <<"r", "e", "d", "u", "c", "e", "d", " ", "c", "o", "s", "t", " ", "b", "y", " ",
      "$", "1", "0", ",", "0", "0", "0">>

WorkedOnBackend ==
    <<"w", "o", "r", "k", "e", "d", " ", "o", "n", " ", "b", "a", "c", "k", "e", "n",
      "d", " ", "s", "y", "s", "t", "e", "m", "s">>

OptimizedPipeline ==
    <<"U+4F18", "U+5316", " ", "p", "i", "p", "e", "l", "i", "n", "e">>

\* a in b
IsSubstring(a, b) == \E i \in 0..(Len(b) - Len(a)) : SubSeq(b, i + 1, i + Len(a)) = a

\* a classification that accepts percentages only
_has_quantification_percent(text) == \E i \in DOMAIN text : text[i] = "%"

\* re.search(r'\d+%|\d+\w*|\d+\.\d+', text) finds a match exactly when text
\* holds a digit; else any of the six keywords
_has_quantification(text) ==
    \/ \E i \in DOMAIN text : text[i] \in {"0", "1", "2", "3", "4", "5", "6", "7", "8", "9"}
    \/ \E keyword \in {<<"U+63D0", "U+5347">>, <<"U+63D0", "U+9AD8">>,
                       <<"U+589E", "U+957F">>, <<"U+51CF", "U+5C11">>,
                       <<"U+8282", "U+7701">>, <<"U+4F18", "U+5316">>} :
          IsSubstring(keyword, text)

\* the achievements of all work entries, then of all projects
Achievements(resume_data) ==
    LET RECURSIVE Flat(_)
        Flat(entries) == IF entries = <<>> THEN <<>>
                         ELSE Get(Head(entries), "achievements", <<>>) \o Flat(Tail(entries))
    IN  Flat(Get(resume_data, "work_experience", <<>>))
            \o Flat(Get(resume_data, "projects", <<>>))

_calculate_quantification_score(resume_data) ==
    LET descriptions == Achievements(resume_data)
        quantified == SelectSeq(descriptions, _has_quantification)
    IN  IF Len(descriptions) > 0
        THEN (Len(quantified) * 100) \div Len(descriptions)
        ELSE 0

Max(a, b) == IF a > b THEN a ELSE b

\* "not d.get(k)" for a string or a list: missing or empty
Falsy(d, k) == k \notin DOMAIN d \/ d[k] = <<>>

\* personal_info is D(mapping) or None; the other sections are lists.
\* None.get raises AttributeError.
_calculate_format_score(resume_data) ==
    LET personal_info == Get(resume_data, "personal_info", D(EmptyDict))
        missing == Cardinality({section \in {"work_experience", "education"} :
                                   Falsy(resume_data, section)})
                   + (IF TruthyValue(personal_info) THEN 0 ELSE 1)
    IN  IF personal_info.t # "dict" THEN Raised
        ELSE Ok(Max(0, 100 - 20 * missing
                       - (IF Falsy(personal_info.v, "email") THEN 15 ELSE 0)
                       - (IF Falsy(personal_info.v, "phone") THEN 10 ELSE 0)))

_calculate_structure_score(resume_data) ==
    LET work_exp == Get(resume_data, "work_experience", <<>>)
        RECURSIVE Penalty(_)
        Penalty(entries) ==
            IF entries = <<>> THEN 0
            ELSE LET work == Head(entries) IN
                 (IF Falsy(work, "company") THEN 10 ELSE 0)
                 + (IF Falsy(work, "position") THEN 10 ELSE 0)
                 + (IF Falsy(work, "responsibilities") /\ Falsy(work, "achievements")
                    THEN 15 ELSE 0)
                 + Penalty(Tail(entries))
    IN  Max(0, 100 - (IF work_exp = <<>> THEN 30 ELSE Penalty(work_exp))
                   - (IF Falsy(resume_data, "skills") THEN 20 ELSE 0))

\* s.lower() and s.strip()
Lower(s) ==
    LET upper == <<"A", "B", "C", "D", "E", "F", "G", "H", "I", "J", "K", "L", "M",
                   "N", "O", "P", "Q", "R", "S", "T", "U", "V", "W", "X", "Y", "Z">>
        lower == <<"a", "b", "c", "d", "e", "f", "g", "h", "i", "j", "k", "l", "m",
                   "n", "o", "p", "q", "r", "s", "t", "u", "v", "w", "x", "y", "z">>
    IN  [i \in DOMAIN s |->
            IF \E j \in DOMAIN upper : upper[j] = s[i]
            THEN lower[CHOOSE j \in DOMAIN upper : upper[j] = s[i]]
            ELSE s[i]]

RECURSIVE Strip(_)
Strip(s) ==
    IF s = <<>> THEN s
    ELSE IF Head(s) = " " THEN Strip(Tail(s))
    ELSE IF s[Len(s)] = " " THEN Strip(SubSeq(s, 1, Len(s) - 1))
    ELSE s

\* list(set(kw.lower().strip() for kw in keywords if kw.strip())), as a set
_extract_resume_keywords(resume_data) ==
    LET RECURSIVE Flat(_, _, _)
        Flat(entries, k1, k2) ==
            IF entries = <<>> THEN <<>>
            ELSE Get(Head(entries), k1, <<>>) \o Get(Head(entries), k2, <<>>)
                     \o Flat(Tail(entries), k1, k2)
        keywords == Get(resume_data, "skills", <<>>)
                        \o Flat(Get(resume_data, "work_experience", <<>>),
                                "responsibilities", "achievements")
                        \o Flat(Get(resume_data, "projects", <<>>),
                                "technologies", "achievements")
    IN  {Strip(Lower(keywords[i])) : i \in {j \in DOMAIN keywords : Strip(keywords[j]) # <<>>}}

\* The prompt is formatted from jd_data.get(...) before the try: with no
\* job description (None) that raises and no completion is requested.  Any
\* failure of the completion gives three empty categories.
_extract_jd_keywords(jd_data, resp) ==
    IF jd_data.t # "dict" THEN Raised
    ELSE IF resp.kind # "json"
    THEN Ok(D([c \in {"technical", "soft", "industry"} |-> L(<<>>)]))
    ELSE Ok(resp.loaded)

\* <<matched, len(all_jd_keywords)>>, <<0, 1>> for 0.0; jd_keywords.values()
\* and the iteration of a category need a mapping of lists
_calculate_match_score(resume_keywords, jd_keywords) ==
    LET matches(jd_kw) == \E resume_kw \in resume_keywords :
                              IsSubstring(jd_kw, resume_kw) \/ IsSubstring(resume_kw, jd_kw)
        RECURSIVE Count(_)
        Count(K) ==
            IF K = {} THEN <<0, 0>>
            ELSE LET k == CHOOSE k \in K : TRUE
                     kws == jd_keywords.v[k].v
                     rest == Count(K \ {k})
                 IN  <<Len(SelectSeq(kws, LAMBDA kw : matches(Lower(kw)))) + rest[1],
                       Len(kws) + rest[2]>>
    IN  IF jd_keywords.t # "dict" THEN Raised
        ELSE IF \E k \in DOMAIN jd_keywords.v : jd_keywords.v[k].t # "list" THEN Raised
        ELSE LET c == Count(DOMAIN jd_keywords.v)
             IN  Ok(IF c[2] = 0 THEN <<0, 1>> ELSE c)

\* match_score of the KeywordAnalysis and the number of completions requested
\* (keywords, then recommendations); any exception gives match_score 0.0
analyze_resume_vs_jd(resume_data, jd_data, resp) ==
    LET jd_keywords == _extract_jd_keywords(jd_data, resp)
        match_score == _calculate_match_score(_extract_resume_keywords(resume_data),
                                              jd_keywords.val)
    IN  IF jd_keywords.exc THEN [match_score |-> <<0, 1>>, completions |-> 0]
        ELSE IF match_score.exc THEN [match_score |-> <<0, 1>>, completions |-> 1]
        ELSE [match_score |-> match_score.val, completions |-> 2]

\* the issues with the score they quote; each comes with its fixed improvement
_generate_ats_feedback(keyword_score, format_score, structure_score, quantification_score) ==
    SelectSeq(<<<<"keyword", keyword_score, keyword_score < 70>>,
                <<"format", format_score, format_score < 80>>,
                <<"structure", structure_score, structure_score < 80>>,
                <<"quantification", quantification_score, quantification_score < 60>>>>,
              LAMBDA issue : issue[3])

\* int(x) of the weighted sum x = (2 * keyword + format + structure + quantification) / 5
Overall(keyword_score, format_score, structure_score, quantification_score) ==
    (2 * keyword_score + format_score + structure_score + quantification_score) \div 5

\* a total rounded to the nearest integer
Overall_nearest(keyword_score, format_score, structure_score, quantification_score) ==
    (2 * (2 * keyword_score + format_score + structure_score + quantification_score) + 5)
        \div 10

CalculateAtsScore(resume_data, jd_data, resp) ==
    LET keyword_analysis == analyze_resume_vs_jd(resume_data, jd_data, resp)
        keyword_score == (keyword_analysis.match_score[1] * 100)
                             \div keyword_analysis.match_score[2]
        format_score == _calculate_format_score(resume_data)
        structure_score == _calculate_structure_score(resume_data)
        quantification_score == _calculate_quantification_score(resume_data)
    IN  IF format_score.exc
        THEN [overall_score |-> 0, keyword_score |-> 0, format_score |-> 0,
              structure_score |-> 0, quantification_score |-> 0,
              issues |-> <<<<"failed", 0, TRUE>>>>]
        ELSE [overall_score |-> Overall(keyword_score, format_score.val, structure_score,
                                        quantification_score),
              keyword_score |-> keyword_score, format_score |-> format_score.val,
              structure_score |-> structure_score,
              quantification_score |-> quantification_score,
              issues |-> _generate_ats_feedback(keyword_score, format_score.val,
                                                structure_score, quantification_score)]

Python == <<"P", "y", "t", "h", "o", "n">>

\* The resume records: personal_info tagged, the other sections lists.
ResumeDatas ==
    {a @@ b @@ c @@ d :
        a \in Opt("personal_info",
                  {None,
                   D("email" :> <<"a", "@", "x", ".", "o", "r", "g">> @@ "phone" :> <<"5", "5", "5">>)}),
        b \in Opt("work_experience",
                  {<<"company" :> <<"a", "c", "m", "e">> @@ "position" :> <<"d", "e", "v">>
                       @@ "achievements" :> <<IncreasedThroughput, ReducedCost, WorkedOnBackend>>>>,
                   <<"company" :> <<"a", "c", "m", "e">> @@ "achievements" :> <<OptimizedPipeline>>>>,
                   <<"position" :> <<"d", "e", "v">> @@ "responsibilities" :> <<WorkedOnBackend>>>>}),
        c \in Opt("skills", {<<Python \o <<" ">>, <<"D", "o", "c", "k", "e", "r">>>>}),
        d \in {EmptyDict,
               "education" :> <<"school" :> <<"m", "i", "t">>>>
                   @@ "projects" :> <<"technologies" :> <<<<"g", "o">>>>
                                        @@ "achievements" :> <<ReducedCost>>>>}}

\* no job description, an empty one, one with a title
JdDatas == {None, D(EmptyDict), D("title" :> <<"d", "e", "v">>)}

JdKeywordResponses ==
    {ApiError, BadJson, Json(L(<<>>)), Json(D(EmptyDict)),
     Json(D("technical" :> L(<<Python>>))),
     Json(D("technical" :> L(<<Python, <<"d", "o", "c", "k", "e", "r">>>>) @@ "soft" :> L(<<<<"g", "o">>>>))),
     Json(D("technical" :> None))}

calculate_ats_score(resume_data, jd_data, resp) ==
    /\ scored' = [op |-> "calculate_ats_score", resume_data |-> resume_data,
                  jd_data |-> jd_data, resp |-> resp,
                  report |-> CalculateAtsScore(resume_data, jd_data, resp),
                  completions |->
                      analyze_resume_vs_jd(resume_data, jd_data, resp).completions]
    /\ UNCHANGED <<ro_vars, rvm_vars, parsed, analysis, auth_vars, mail_vars>>

NextScore ==
    \E resume_data \in ResumeDatas, jd_data \in JdDatas, resp \in JdKeywordResponses :
        calculate_ats_score(resume_data, jd_data, resp)

SpecScore == Init /\ [][NextScore]_vars

\* the web operations: accounts and sessions, verification codes, feedback
SpecAuth == Init /\ [][NextAuth]_vars

SpecVerify == Init /\ [][NextVerify]_vars

SpecFeedback == Init /\ [][NextFeedback]_vars

----------------------------------------------------------------------------
(* Properties of the resume_optimizer version store *)

OwnedBy(o) == {v \in Stored : resume_versions[v].user_id = o}

\* C1: after any sequence of create_version, update_version, set_active_version
\* and delete_version calls, at most one stored version of any ownership scope
\* (owner id, or NULL for ownerless versions) has its active flag set.
C1_AtMostOneActivePerScope ==
    \A o \in Owners :
        Cardinality({v \in OwnedBy(o) : resume_versions[v].is_active}) <= 1

\* two versions of one scope are stored, one was made active before the last
\* call, and the last call was a successful update or a delete
C1_Witness ==
    /\ ret.op \in {"update_version", "delete_version"}
    /\ ret.res = "true"
    /\ prev # NoId
    /\ \E o \in Owners : \E v \in OwnedBy(o) :
          /\ resume_versions[v].is_active
          /\ \E w \in OwnedBy(o) : w # v /\ ~resume_versions[w].is_active

\* C3: set_active_version(v1) followed by set_active_version(v2), v1 and v2
\* stored versions of one ownership scope, leaves v2 the only active version,
\* v1 inactive, and get_active_version returning v2.
C3_SecondSetActiveWins ==
    \A v1, v2 \in Stored :
        ( /\ prev = v1
          /\ ret.op = "set_active_version"
          /\ ret.vid = v2
          /\ resume_versions[v1].user_id = resume_versions[v2].user_id )
        => /\ ActiveIn(resume_versions) = {v2}
           /\ v1 # v2 => ~resume_versions[v1].is_active
           /\ ActiveVersionResults(resume_versions) = {v2}

C3_Witness ==
    \E v1, v2 \in Stored :
        /\ v1 # v2
        /\ prev = v1
        /\ ret.op = "set_active_version"
        /\ ret.vid = v2
        /\ resume_versions[v1].user_id = resume_versions[v2].user_id
        /\ resume_versions[v2].is_active

\* C5: a delete_version(v) of a stored version v leaves v not stored (get_version(v)
\* finds nothing), leaves no cache row with v as first or as second endpoint, and
\* leaves exactly the cache rows that did not involve v.
C5_DeletePurgesCacheRows ==
    [][\A v \in IdSpace :
          (ret'.op = "delete_version" /\ ret'.vid = v /\ ret'.res = "true")
          => /\ v \notin DOMAIN resume_versions'
             /\ \A r \in version_comparisons' : r.version1_id # v /\ r.version2_id # v
             /\ \A r \in version_comparisons :
                   (r.version1_id # v /\ r.version2_id # v) => r \in version_comparisons'
             /\ version_comparisons' \subseteq version_comparisons]_vars

\* a delete has removed a cache row and kept another one
C5_Witness ==
    /\ ret.op = "delete_version"
    /\ ret.res = "true"
    /\ ret.n >= 1
    /\ version_comparisons # {}

C25_SetActiveUnknownClearsAll ==
    (ret.op = "set_active_version" /\ ret.vid \notin Stored)
        => ret.res = "ok" /\ ActiveIn(resume_versions) = {}

\* the call before it had made a stored version active
C25_Witness ==
    /\ ret.op = "set_active_version" /\ ret.vid \notin Stored
    /\ prev \in Stored
    /\ ~resume_versions[prev].is_active

\* C26: a delete_version call with an identifier that matches no stored
\* version returns False and leaves the version table and the comparison
\* cache as they were.
C26_DeleteUnknownChangesNothing ==
    [][(ret'.op = "delete_version" /\ ret'.vid \notin Stored)
        => /\ ret'.res = "false"
           /\ resume_versions' = resume_versions
           /\ version_comparisons' = version_comparisons]_vars

\* cache rows reference the identifier of the failed delete
C26_Witness ==
    /\ ret.op = "delete_version" /\ ret.res = "false"
    /\ \E r \in version_comparisons : r.version1_id = ret.vid \/ r.version2_id = ret.vid

\* C28: an update_version call leaves the comparison cache as it was, and
\* with it what get_cached_comparison returns for every pair of versions.
C28_UpdateKeepsCachedComparisons ==
    [][(ret'.op = "update_version" /\ now' = now)
        => /\ version_comparisons' = version_comparisons
           /\ \A v1, v2 \in IdSpace :
                 CachedResults(version_comparisons', v1, v2, now')
                     = CachedResults(version_comparisons, v1, v2, now)]_vars

\* get_cached_comparison has returned a comparison that the current resume
\* data of the two versions no longer gives
C28_Witness ==
    /\ ret.op = "get_cached_comparison" /\ ret.res = "found" /\ ret.vid \in Stored
    /\ \E v2 \in Stored :
          /\ CachedResults(version_comparisons, ret.vid, v2, now) = {ret.val}
          /\ ret.val # Compare(resume_versions[ret.vid].resume_data,
                               resume_versions[v2].resume_data)

\* C22: every row of the comparison cache references two stored versions.
C22_CacheRowsReferenceStoredVersions ==
    \A r \in version_comparisons : r.version1_id \in Stored /\ r.version2_id \in Stored

----------------------------------------------------------------------------
(* Properties of the resume_version_manager version store *)

SamePair(r, q) ==
    \/ r.version1_id = q.version1_id /\ r.version2_id = q.version2_id
    \/ r.version1_id = q.version2_id /\ r.version2_id = q.version1_id

\* C4: a compare(A,B) made less than 24 hours after a compare of the same pair
\* returns the cached result and adds no row; a row is added only when no row
\* of the pair younger than 24 hours is there.
C4_CompareUsesCache ==
    [][Len(rvm_comparisons') > Len(rvm_comparisons) =>
          LET r == rvm_comparisons'[Len(rvm_comparisons')] IN
          ~\E i \in DOMAIN rvm_comparisons :
               /\ SamePair(rvm_comparisons[i], r)
               /\ Hours(now) - Hours(rvm_comparisons[i].comparison_time) < CacheWindowHours]_vars

\* C6: every create_version call returns an identifier that no stored version
\* has, so a create never replaces or overwrites a stored version, also when
\* two creates for one company and position read the same clock value.
C6_CreateReturnsFreshId ==
    rvm_ret.op = "create_version" => ~rvm_ret.replaced

\* C9: a version-store operation called with an identifier that matches no
\* stored version reports it as None, False or an empty report and raises no
\* exception.
C9_NotFoundNeverRaises ==
    ~rvm_ret.known => rvm_ret.res \in {"none", "false", "empty"}

\* C27: an update_version call leaves the set of stored identifiers as it was
\* and changes the fields of one version at most, the addressed one; with an
\* unknown identifier it returns False and changes nothing.
C27_UpdateModifiesOnlyAddressed ==
    [][rvm_ret'.op = "update_version"
        => /\ DOMAIN rvm_versions' = DOMAIN rvm_versions
           /\ Cardinality({w \in DOMAIN rvm_versions : rvm_versions'[w] # rvm_versions[w]}) <= 1
           /\ rvm_ret'.res = "false" => rvm_versions' = rvm_versions]_vars

\* the row a compare_versions call has just saved, and the contents it read
Compared == rvm_ret.op = "compare_versions" /\ rvm_ret.res = "ok"
LastRow == rvm_comparisons[Len(rvm_comparisons)]
Content1 == rvm_versions[LastRow.version1_id].content
Content2 == rvm_versions[LastRow.version2_id].content

\* C17: the similarity score of a comparison is the number of keys of the two
\* contents that both have with equal values, divided by the number of keys
\* of the two contents together; it lies in [0,1], is the same with the
\* contents exchanged, and is 1.0 for two identical contents.
C17_SimilarityIsShareOfEqualFields ==
    Compared =>
        LET keys == DOMAIN Content1 \cup DOMAIN Content2
            equal == {k \in DOMAIN Content1 \cap DOMAIN Content2 : Content1[k] = Content2[k]}
            s == LastRow.similarity_score
        IN  /\ keys # {} => s[1] * Cardinality(keys) = Cardinality(equal) * s[2]
            /\ 0 <= s[1] /\ s[1] <= s[2] /\ s[2] > 0
            /\ \A t \in {_calculate_similarity(Content2, Content1)} : t[1] * s[2] = s[1] * t[2]
            /\ Content1 = Content2 => s[1] = s[2]

\* C18: the differences of a comparison have an entry for personal info, work
\* experience, education, projects and skills exactly when that section of
\* the two contents differs (the skills as sets); two contents that differ
\* in their education only give non-empty differences.
C18_DifferencesHoldDifferingSections ==
    Compared =>
        LET section(c, k) == Get(c, k, <<>>)
            differs(k) ==
                IF k = "skills"
                THEN Range(section(Content1, k)) # Range(section(Content2, k))
                ELSE section(Content1, k) # section(Content2, k)
        IN  \A k \in {"personal_info", "work_experience", "education", "projects", "skills"} :
                (k \in DOMAIN LastRow.differences) = differs(k)

----------------------------------------------------------------------------
(* Properties of parse_resume *)

Malformed(resp) == resp.kind \in {"yaml_error", "not_mapping"}

\* C7: for every malformed model response (one that yaml.safe_load rejects or
\* that does not load as a mapping) parse_resume returns a record built from
\* the canonical empty structure, and its parsing confidence is 0.0.
C7_MalformedGivesZeroConfidence ==
    (parsed.op = "parse_resume" /\ Malformed(parsed.resp))
        => parsed.resume.parsing_confidence = 0

\* a mapping whose sections have the requested types, are null or are left out
WellFormed(resp) ==
    /\ resp.kind = "mapping"
    /\ LET data == resp.data
           fits(k, t) == k \in DOMAIN data => data[k].t \in {t, "none"}
       IN  /\ fits("personal_info", "dict") /\ fits("technical_skills", "dict")
           /\ fits("work_experience", "list") /\ fits("education", "list")
           /\ Get(data, "personal_info", None).t = "dict"
                  => DOMAIN data.personal_info.v \subseteq PersonalFields
           /\ Get(data, "work_experience", None).t = "list"
                  => EntriesFit(data.work_experience, JobFields)
           /\ Get(data, "education", None).t = "list"
                  => EntriesFit(data.education, EducationFields)

\* C14: for a well-formed response the record is never the fallback record:
\* it holds the personal info, the work entries and the education entries the
\* response provides and the empty default for what the response omits, and
\* every skill the response provides (the matcher may add skills to them).
C14_RecordReflectsResponse ==
    (parsed.op = "parse_resume" /\ ~parsed.text.empty /\ WellFormed(parsed.resp))
        => LET data == parsed.resp.data
               r == parsed.resume
               personal == Get(data, "personal_info", None)
               skills == Get(data, "technical_skills", None)
               provided(x, c) == x.t = "dict" /\ Get(x.v, c, None).t # "none"
           IN  /\ ~r.fallback
               /\ \A f \in PersonalFields :
                      r.personal_info[f] = IF provided(personal, f) THEN personal.v[f] ELSE ""
               /\ \A c \in Categories :
                      provided(skills, c) =>
                          Range(skills.v[c].v) \subseteq Range(r.technical_skills[c])
               /\ r.work_experience = Entries(Get(data, "work_experience", None))
               /\ r.education = Entries(Get(data, "education", None))

\* C15: for a file with an unsupported extension parse_resume reports a typed
\* failure to its caller and requests no completion.
C15_UnsupportedFormatIsReported ==
    (parsed.op = "parse_resume" /\ parsed.file_path.t = "path" /\ parsed.file_path.exists
        /\ parsed.file_path.extension \notin {"pdf", "docx", "doc", "txt"})
        => parsed.raised /\ parsed.completions = 0

\* C16: when the merge returns, every category holds the skills of the model
\* in their order, followed by exactly the matcher's skills of that category
\* that equal none of the model's skills ignoring case; merging the matcher's
\* skills into the result once more changes nothing.
C16_MergeKeepsAndDeduplicates ==
    LET structured_data == _extract_with_enhanced_openai(parsed.resp)
        regex_result == parsed.text.regex
        final_data == _merge_and_validate_results(structured_data.val, regex_result)
        ts == Get(structured_data.val, "technical_skills", D(EmptyDict))
        model(c) == Get(ts.v, c, L(<<>>)).v
        out(c) == final_data.val.technical_skills.v[c].v
        new(c) == {x \in Range(regex_result[c]) : \A y \in Range(model(c)) : y.w # x.w}
    IN  (parsed.op = "parse_resume" /\ parsed.completions = 1
            /\ ~structured_data.exc /\ ~final_data.exc)
        => /\ \A c \in Categories :
                /\ Len(out(c)) = Len(model(c)) + Cardinality(new(c))
                /\ SubSeq(out(c), 1, Len(model(c))) = model(c)
                /\ Range(SubSeq(out(c), Len(model(c)) + 1, Len(out(c)))) = new(c)
           /\ \A k \in DOMAIN structured_data.val \ {"technical_skills"} :
                final_data.val[k] = structured_data.val[k]
           /\ _merge_and_validate_results(final_data.val, regex_result) = final_data

\* the matcher found Python and docker, the model had python only
C16_Witness ==
    /\ parsed.op = "parse_resume" /\ parsed.text.name = "long Python docker"
    /\ ~parsed.resume.fallback
    /\ parsed.resume.technical_skills["programming_languages"] = <<Word("python", "python")>>
    /\ parsed.resume.technical_skills["tools_software"] = <<Word("docker", "docker")>>

\* C21: the parsing confidence of every record parse_resume returns lies in
\* [0,1] (kept in hundredths: in 0..100).
C21_ConfidenceInUnitInterval ==
    parsed.op = "parse_resume"
        => parsed.resume.parsing_confidence \in 0..100

\* a record whose sections add up to more than max_score
C21_Witness ==
    /\ parsed.op = "parse_resume" /\ parsed.resp = [kind |-> "mapping", data |-> RichMapping]
    /\ parsed.text.long /\ ~parsed.resume.fallback
    /\ parsed.resume.parsing_confidence = 100
    /\ Len(parsed.resume.work_experience) = 3 /\ Len(parsed.resume.education) = 2

----------------------------------------------------------------------------
(* Properties of analyze_resume_comprehensive *)

\* C8: whichever of the six round-trips fail, by an API error or by a
\* response of the wrong shape, analyze_resume_comprehensive returns a result
\* and no exception reaches the caller.
C8_AnalysisAlwaysCompletes ==
    analysis.op = "analyze_resume_comprehensive" => ~analysis.out.exc

----------------------------------------------------------------------------
(* Properties settled on the frame of set_active_version *)

\* C11: set_active_version(v) on a stored version v leaves the active flag of
\* every version that belongs to another ownership scope as it was.
C11_SetActiveKeepsOtherScopes ==
    [][(ret'.op = "set_active_version" /\ ret'.vid \in Stored
            /\ resume_versions' # resume_versions)
        => \A w \in Stored :
              resume_versions[w].user_id # resume_versions[ret'.vid].user_id
                  => resume_versions'[w].is_active = resume_versions[w].is_active]_vars

----------------------------------------------------------------------------
(* Properties of calculate_ats_score *)

\* C12: two calculate_ats_score calls in a row on the same resume record and
\* the same job description give two reports equal in every field.
C12_ScoringIsDeterministic ==
    [][(/\ scored.op = "calculate_ats_score"
        /\ scored'.op = "calculate_ats_score"
        /\ scored'.resume_data = scored.resume_data
        /\ scored'.jd_data = scored.jd_data)
        => scored'.report = scored.report]_vars

\* C13: the overall score is the weighted sum of the four sub-scores rounded
\* to the nearest integer, and all five scores are integers in 0..100.
C13_OverallIsRoundedWeightedSum ==
    scored.op = "calculate_ats_score" =>
        LET r == scored.report IN
        /\ r.overall_score = Overall_nearest(r.keyword_score, r.format_score,
                                             r.structure_score, r.quantification_score)
        /\ \A f \in {"overall_score", "keyword_score", "format_score", "structure_score",
                     "quantification_score"} : r[f] \in 0..100

\* C19: with no job description, or an empty one, the keyword-match component
\* adds a fixed non-zero default to the overall score and no completion is
\* requested for the keywords.
C19_NoJobDescriptionNeutralDefault ==
    (scored.op = "calculate_ats_score" /\ scored.jd_data \in {None, D(EmptyDict)}
        /\ scored.report.issues # <<<<"failed", 0, TRUE>>>>)
        => /\ scored.completions = 0
           /\ scored.report.overall_score >
                  Overall(0, scored.report.format_score, scored.report.structure_score,
                          scored.report.quantification_score)

----------------------------------------------------------------------------
(* Properties of the user manager *)

\* C23: a login that locks the account is the fifth wrong-password login
\* counted since the last successful login of the account or since its last
\* lock expired.
C23_LockedOnlyByFifthFailure ==
    (auth_ret.op = "login_user" /\ auth_ret.res = "now locked")
        => Failures(auth_ret.user) = MaxLoginAttempts

\* C24: get_user_by_session returns a user only for a session that a login
\* issued to that user, before its expiry time, not ended by a logout or by
\* an expiry found earlier, and of an active user; the sessions ended are
\* deleted from user_sessions.
C24_OnlyLiveSessionsAccepted ==
    /\ (auth_ret.op = "get_user_by_session" /\ auth_ret.res = "user")
          => /\ auth_ret.sid \in DOMAIN auth_seen.issued
             /\ auth_seen.issued[auth_ret.sid].user_id = auth_ret.user
             /\ WebHours(auth_ret.at) < auth_seen.issued[auth_ret.sid].expires_time
             /\ auth_ret.sid \notin auth_seen.ended
             /\ users[auth_ret.user].is_active
    /\ \A sid \in auth_seen.ended : sid \notin DOMAIN user_sessions

\* a session issued to ann, accepted at some time, has ended and is refused
C24_Witness ==
    /\ auth_ret.op = "get_user_by_session"
    /\ auth_ret.res = "none"
    /\ auth_ret.sid \in auth_seen.ended
    /\ auth_ret.sid \in DOMAIN auth_seen.issued
    /\ auth_seen.issued[auth_ret.sid].user_id = "ann"

----------------------------------------------------------------------------
(* Properties of the email verification and of the feedback backup *)

\* C29: a verify_email call that succeeds redeems a code that
\* send_verification_email issued, that has not been redeemed before, that is
\* at most 24 hours old and that is the latest code issued to its user; a
\* verify_email call that fails leaves the tables as they were.
C29_CodeRedeemedOnceInTime ==
    [][(verify_ret'.op = "verify_email" /\ now' = now) =>
          IF verify_ret'.ok
          THEN /\ verify_ret'.code \in DOMAIN verify_seen.issued
               /\ verify_ret'.code \notin verify_seen.redeemed
               /\ WebHours(now) - verify_seen.issued[verify_ret'.code].created_time
                     <= VerificationHours
               /\ verify_seen.latest[verify_seen.issued[verify_ret'.code].user_id]
                     = verify_ret'.code
               /\ verify_ret'.res = verify_seen.issued[verify_ret'.code].user_id
          ELSE UNCHANGED <<email_verifications, email_verified>>]_vars

\* a code that was redeemed is presented again and refused
C29_Witness ==
    /\ verify_ret.op = "verify_email"
    /\ ~verify_ret.ok
    /\ verify_ret.code \in verify_seen.redeemed

\* C30: a send_feedback_email call saves before it tries a provider, and the
\* backup it leaves is the backup it found with the feedback appended,
\* whether the mail was delivered or not.
C30_BackupOnlyGrows ==
    [][feedback_ret'.op = "send_feedback_email" =>
          /\ feedback_ret'.events[1] = "save"
          /\ Loaded(backup_file') = Append(Loaded(backup_file), feedback_ret'.feedback.content)]_vars

============================================================================
